---- MODULE Spec2Model ----
(***************************************************************************)
(* nostr-inbox: the streaming inbox (inbox.cjs), its rule engine and       *)
(* filter builder (filters.cjs), and the webhook dispatcher (webhooks.cjs).*)
(*                                                                         *)
(* The inbox is a single-threaded reactor: every action below is one turn  *)
(* of the event loop (a call of the public API, a relay callback, a        *)
(* settled connect promise or a timer).                                    *)
(***************************************************************************)
EXTENDS Integers, Sequences, FiniteSets, TLC

(***************************************************************************)
(* Bounds of the model                                                     *)
(***************************************************************************)
\* distinct raw event ids the relays deliver in the ingestion specification
NumIds == 5
\* distinct raw event ids the relays deliver in the connection specification
NumConnIds == 1
\* distinct raw event ids the relays deliver in the bus specification
NumBusIds == 2
\* raw event ids delivered in the duplicates specification, and the seconds
\* by which a resent copy is later
NumDupIds == 2
ResendDelay == 60
\* collect calls made in the duplicates specification
MaxDupCalls == 1
\* handlers user code has subscribed with inbox.on() at one time
MaxUserSubs == 1
\* listeners registered on the emitter at one time
MaxListeners == 2
\* waitFor / collect calls made
MaxCalls == 2
\* notifications published while one collect call is pending
MaxCollected == 2
\* connect attempts in flight plus reconnect timers armed per relay when start() runs
MaxPending == 1
\* distinct notifications submitted to the dispatcher: Notification(EventOf(i)),
\* in the batching and in the delivery specification
NumHookIds == 3
NumDeliverIds == 1
\* send() calls made on the dispatcher, in the batching, the delivery and the
\* signing specification, and close() calls made
MaxSubmits == 3
MaxDeliveries == 2
MaxSigned == 1
MaxCloses == 1

(***************************************************************************)
(* Program constants                                                       *)
(***************************************************************************)
\* `seen.size > 10000`: the dedup window's cap, scaled 10000 -> 4
SeenCap == 4
\* `for (i = 0; i < 5000; i++) seen.delete(arr[i])`, scaled 5000 -> 2
SeenEvict == 2
\* `Math.floor(Date.now() / 1000) - 60`
SeedDelta == 60

KIND_TEXT_NOTE == 1
KIND_DM_ENCRYPTED == 4
KIND_REACTION == 7
KIND_DVM_FEEDBACK == 7000
KIND_ZAP_RECEIPT == 9735
KIND_LABEL == 1985
KIND_GIFT_WRAP == 1059
KIND_BID == 950
KIND_DELIVERY == 951
KIND_RESOLUTION == 952
KIND_COMMENT == 1111

\* an absent optional value (null / undefined) and a present one
None == << >>
Some(x) == << x >>

Range(s) == { s[i] : i \in 1..Len(s) }

(***************************************************************************)
(* filters.cjs: the rule engine                                            *)
(***************************************************************************)
\* the work-kind ranges taken as (5000, 6000] and (6000, 7000]
classifyEvent_shifted(event, myPubkey) ==
  LET kind == event.kind IN
  IF kind > 5000 /\ kind <= 6000
    THEN [type |-> "dvm_request", priority |-> "high", dvmKind |-> Some(kind)]
  ELSE IF kind > 6000 /\ kind <= 7000
    THEN [type |-> "dvm_result", priority |-> "medium", dvmKind |-> Some(kind - 1000)]
  ELSE [type |-> "unknown", priority |-> "low", dvmKind |-> None]

\* a label is taken to be about the watcher whatever its tags
classifyEvent_anyLabel(event, myPubkey) ==
  LET kind == event.kind
      plain(t, p) == [type |-> t, priority |-> p, dvmKind |-> None]
  IN CASE kind \in { KIND_DM_ENCRYPTED, KIND_GIFT_WRAP } -> plain("dm", "high")
       [] kind >= 5000 /\ kind < 6000 ->
            [type |-> "dvm_request", priority |-> "high", dvmKind |-> Some(kind)]
       [] kind >= 6000 /\ kind < 7000 ->
            [type |-> "dvm_result", priority |-> "medium", dvmKind |-> Some(kind - 1000)]
       [] kind = KIND_DVM_FEEDBACK -> plain("dvm_feedback", "low")
       [] kind = KIND_ZAP_RECEIPT -> plain("zap", "medium")
       [] kind = KIND_LABEL -> plain("trust", "medium")
       [] kind = KIND_BID -> plain("marketplace_bid", "high")
       [] kind = KIND_DELIVERY -> plain("marketplace_delivery", "high")
       [] kind = KIND_RESOLUTION -> plain("marketplace_resolution", "high")
       [] kind = KIND_REACTION -> plain("reaction", "low")
       [] kind \in { KIND_TEXT_NOTE, KIND_COMMENT } -> plain("mention", "medium")
       [] OTHER -> plain("unknown", "low")

classifyEvent(event, myPubkey) ==
  LET kind == event.kind IN
  IF kind = KIND_DM_ENCRYPTED \/ kind = KIND_GIFT_WRAP
    THEN [type |-> "dm", priority |-> "high", dvmKind |-> None]
  ELSE IF kind >= 5000 /\ kind < 6000
    THEN [type |-> "dvm_request", priority |-> "high", dvmKind |-> Some(kind)]
  ELSE IF kind >= 6000 /\ kind < 7000
    THEN [type |-> "dvm_result", priority |-> "medium", dvmKind |-> Some(kind - 1000)]
  ELSE IF kind = KIND_DVM_FEEDBACK
    THEN [type |-> "dvm_feedback", priority |-> "low", dvmKind |-> None]
  ELSE IF kind = KIND_ZAP_RECEIPT
    THEN [type |-> "zap", priority |-> "medium", dvmKind |-> None]
  ELSE IF kind = KIND_LABEL
    THEN IF \E i \in 1..Len(event.tags) :
              /\ Len(event.tags[i]) >= 2
              /\ event.tags[i][1] = "p"
              /\ event.tags[i][2] = myPubkey
           THEN [type |-> "trust", priority |-> "medium", dvmKind |-> None]
           ELSE [type |-> "trust_network", priority |-> "low", dvmKind |-> None]
  ELSE IF kind = KIND_BID
    THEN [type |-> "marketplace_bid", priority |-> "high", dvmKind |-> None]
  ELSE IF kind = KIND_DELIVERY
    THEN [type |-> "marketplace_delivery", priority |-> "high", dvmKind |-> None]
  ELSE IF kind = KIND_RESOLUTION
    THEN [type |-> "marketplace_resolution", priority |-> "high", dvmKind |-> None]
  ELSE IF kind = KIND_REACTION
    THEN [type |-> "reaction", priority |-> "low", dvmKind |-> None]
  ELSE IF kind = KIND_TEXT_NOTE \/ kind = KIND_COMMENT
    THEN [type |-> "mention", priority |-> "medium", dvmKind |-> None]
  ELSE [type |-> "unknown", priority |-> "low", dvmKind |-> None]

(***************************************************************************)
(* filters.cjs: the filter builder                                         *)
(***************************************************************************)
\* the curated list widened to the first 30 request kinds
commonDvmKinds_wide == [i \in 1..30 |-> 4999 + i]

commonDvmKinds ==
  << 5000, 5001, 5002, 5003, 5004, 5005, 5050, 5100, 5200, 5250, 5300,
     5301, 5302, 5400, 5401, 5500, 5501, 5900, 5901, 5902, 5903, 5904, 5905 >>

\* the feedback kind 7000 listed among the result kinds
commonResultKinds_withFeedback ==
  << 6000, 6001, 6002, 6003, 6004, 6005, 6050, 6100, 6200, 6250, 6300,
     6301, 6302, 6400, 6401, 6500, 6501, 6900, 6901, 6902, 6903, 6904, 6905, 7000 >>

commonResultKinds ==
  << 6000, 6001, 6002, 6003, 6004, 6005, 6050, 6100, 6200, 6250, 6300,
     6301, 6302, 6400, 6401, 6500, 6501, 6900, 6901, 6902, 6903, 6904, 6905 >>

\* `channels = {}`: every channel defaults to enabled, no explicit kind list
DefaultChannels ==
  [mentions |-> TRUE, dms |-> TRUE, dvmRequests |-> TRUE, dvmResults |-> TRUE,
   zaps |-> TRUE, reactions |-> TRUE, trust |-> TRUE, marketplace |-> TRUE,
   dvmKinds |-> None]

\* the result kinds taken to be the request kinds
resultKinds_same(dvmKinds) == dvmKinds

\* `dvmKinds.map(k => k + 1000)`
resultKinds(dvmKinds) == [i \in 1..Len(dvmKinds) |-> dvmKinds[i] + 1000]

\* `since ? { since } : {}`: null and 0 are both falsy
sinceObj(since) == IF since = None \/ since = Some(0) THEN None ELSE since

\* the `#p` constraint left empty
Filter_untargeted(kinds, pubkey, label, since) ==
  [kinds |-> kinds, p |-> << >>, L |-> label, since |-> sinceObj(since)]

Filter(kinds, pubkey, label, since) ==
  [kinds |-> kinds, p |-> << pubkey >>, L |-> label, since |-> sinceObj(since)]

buildFilters(pubkey, channels, since) ==
  (IF channels.mentions
     THEN << Filter(<< KIND_TEXT_NOTE, KIND_COMMENT >>, pubkey, None, since) >>
     ELSE << >>)
  \o (IF channels.dms
     THEN << Filter(<< KIND_DM_ENCRYPTED >>, pubkey, None, since),
             Filter(<< KIND_GIFT_WRAP >>, pubkey, None, since) >>
     ELSE << >>)
  \o (IF channels.dvmRequests
     THEN IF channels.dvmKinds # None
            THEN << Filter(channels.dvmKinds[1], pubkey, None, since) >>
            ELSE << Filter(commonDvmKinds, pubkey, None, since) >>
     ELSE << >>)
  \o (IF channels.dvmResults
     THEN IF channels.dvmKinds # None
            THEN << Filter(resultKinds(channels.dvmKinds[1]), pubkey, None, since) >>
            ELSE << Filter(commonResultKinds, pubkey, None, since) >>
     ELSE << >>)
  \o (IF channels.zaps
     THEN << Filter(<< KIND_ZAP_RECEIPT >>, pubkey, None, since) >>
     ELSE << >>)
  \o (IF channels.reactions
     THEN << Filter(<< KIND_REACTION >>, pubkey, None, since) >>
     ELSE << >>)
  \o (IF channels.trust
     THEN << Filter(<< KIND_LABEL >>, pubkey, Some("ai.wot"), since) >>
     ELSE << >>)
  \o (IF channels.marketplace
     THEN << Filter(<< KIND_BID, KIND_DELIVERY, KIND_RESOLUTION >>, pubkey, None, since) >>
     ELSE << >>)

(***************************************************************************)
(* inbox.cjs: createInbox                                                  *)
(***************************************************************************)
\* opts.pubkey, the watcher identity
Pubkey == "P"
\* opts.relays
RelayUrls == { "r1", "r2" }

KindList == << 4, 1, 5001, 7, 1985, 6001 >>

\* The raw events the relays can deliver: one per id (an id is the hash of
\* the event's content), of several kinds and creation times.
EventOf(i) ==
  [id |-> i,
   kind |-> KindList[((i - 1) % Len(KindList)) + 1],
   created_at |-> 1 + ((i * 3) % 5),
   pubkey |-> "Q",
   content |-> "c",
   tags |-> << << "p", Pubkey >> >>]

Events(n) == { EventOf(i) : i \in 1..n }

\* types passed to inbox.waitFor()
WaitTypes == { "dm", "mention" }
\* predicates passed to inbox.collect(): none, or priority === 'high'
Predicates == { "none", "high" }

VARIABLES
  opts,             \* the options createInbox was called with
  seen,             \* the dedup window, in insertion order
  latestTimestamp,  \* the watermark
  running,
  connectedRelays,  \* active relay connections, each with the filters it subscribed with
  inflight,         \* per relay: connectRelay calls awaiting Promise.race
  timers,           \* per relay: armed reconnect timers
  listeners,        \* the emitter's listeners, in registration order
  waits,            \* the promises returned by waitFor
  collects,         \* the promises returned by collect
  last,             \* what the last turn of the event loop did
  handled,          \* history: the ids of the raw events passed to handleEvent
  accepted,         \* history: the ids of the raw events handleEvent did not drop
  starting          \* the start() calls awaiting Promise.allSettled, oldest first:
                    \* for each, the relays whose first connectRelay call is pending

\* webhooks.cjs: the state of one dispatcher made by createWebhook
VARIABLES
  hopts,            \* the options createWebhook was called with
  batch,            \* `batch`: the notifications waiting for the next flush
  batchTimer,       \* `batchTimer` and its timer: "null"; "armed", the handle of
                    \* the pending flush timer; "stale", the handle of a timer
                    \* that fired or was cleared; "orphan", null while a timer
                    \* is pending
  envelopes,        \* the payloads handed to sendRequest, in order, with their promise
  attempts,         \* HTTP requests awaiting their outcome and armed backoff timers
  closeCalls,       \* the close() calls made
  submitted,        \* history: the notifications passed to send(), in order
  uncaught,         \* the callbacks whose exception escaped to the top of the
                    \* event loop (an uncaught exception of the process)
  hlast             \* what the last turn of the dispatcher did

\* a call of a pure function of the library and what it returned
VARIABLES call

hookVars == << hopts, batch, batchTimer, envelopes, attempts, closeCalls,
               submitted, uncaught, hlast, call >>

vars == << opts, seen, latestTimestamp, running, connectedRelays, inflight,
           timers, listeners, waits, collects, last, handled, accepted,
           starting, hookVars >>

\* `since || Math.floor(Date.now() / 1000) - 60`
SeedTimestamp(o) ==
  IF o.since = None \/ o.since = Some(0) THEN o.now - SeedDelta ELSE o.since[1]

NoTurn == [op |-> "none", url |-> "", id |-> 0, at |-> 0, emits |-> << >>,
           called |-> FALSE, threw |-> FALSE, evicted |-> 0]

\* the state createInbox returns
Created(o) ==
  /\ opts = o
  /\ seen = << >>
  /\ latestTimestamp = SeedTimestamp(o)
  /\ running = FALSE
  /\ connectedRelays = << >>
  /\ inflight = [u \in RelayUrls |-> 0]
  /\ timers = [u \in RelayUrls |-> 0]
  /\ listeners = << >>
  /\ waits = << >>
  /\ collects = << >>
  /\ last = NoTurn
  /\ handled = { }
  /\ accepted = { }
  /\ starting = << >>

\* `const { secret = null, events = null, urgentOnly = false, batchMs = 0,
\* maxBatchSize = 100, timeoutMs, retries = 2, onError = null, onSuccess = null }`
DefaultHookOpts ==
  [secret |-> None, events |-> None, urgentOnly |-> FALSE, batchMs |-> 0,
   maxBatchSize |-> 100, retries |-> 2, onError |-> "none", onSuccess |-> "none"]

\* what a turn of the dispatcher does: the HTTP requests it issues, the
\* envelopes it creates, the close() calls it lets return, whether it
\* clears the armed batch timer
NoHookTurn == [cleared |-> FALSE, created |-> << >>, issued |-> << >>,
               op |-> "none", returned |-> << >>]

\* the state createWebhook returns
createWebhook(o) ==
  /\ hopts = o
  /\ batch = << >>
  /\ batchTimer = "null"
  /\ envelopes = << >>
  /\ attempts = << >>
  /\ closeCalls = << >>
  /\ submitted = << >>
  /\ uncaught = { }
  /\ hlast = NoHookTurn

\* no pure function has been called
NoCall == [args |-> << >>, fn |-> "none", ret |-> None]

\* no webhook is attached: a dispatcher with the default options, never used
NoHook == createWebhook(DefaultHookOpts) /\ call = NoCall

(***************************************************************************)
(* The EventEmitter of the inbox                                           *)
(***************************************************************************)
Min(S) == CHOOSE x \in S : \A y \in S : x <= y

\* the sequence s restricted to the indexes in K, in order
Keep(s, K) ==
  LET F[i \in 0..Len(s)] ==
        IF i = 0 THEN << >>
        ELSE IF i \in K THEN Append(F[i - 1], s[i]) ELSE F[i - 1]
  IN F[Len(s)]

\* `!filter || filter(notification)`
Pred(p, n) == p = "none" \/ n.priority = "high"

\* the notification put in front of those received before
push_front(events, id) == << id >> \o events

\* `events.push(notification)` in the handler of collect
push(events, id) == Append(events, id)

\* emitter.emit(topic, n) on the pipeline state st = [ls, ws, cs, emits, threw]:
\* the listeners registered on the topic run in registration order; a
\* listener that throws ends the emit and the exception propagates to the
\* caller; an 'error' emitted with no listener is thrown.  A waitFor
\* listener (registered with once) is removed as it runs, clears its timer
\* and resolves; a collect listener pushes the notification if it passes.
\* The fields `first` and `expected` record what was published while a
\* waitFor / collect call was pending, whoever received it.
emit(st, topic, n) ==
  IF st.threw THEN st
  ELSE
    LET ls == st.ls
        idx == { i \in 1..Len(ls) : ls[i].topic = topic }
        bad == { i \in idx : ls[i].throws }
        stop == IF bad = {} THEN Len(ls) ELSE Min(bad)
        invoked == { i \in idx : i <= stop }
        woken == { ls[i].ref : i \in { j \in invoked : ls[j].kind = "wait" } }
        fed == { ls[i].ref : i \in { j \in invoked : ls[j].kind = "collect" } }
    IN [ls |-> Keep(ls, { i \in 1..Len(ls) : ~(i \in invoked /\ ls[i].kind = "wait") }),
        ws |-> [w \in 1..Len(st.ws) |->
                 LET r == st.ws[w]
                     g == IF r.status = "pending" /\ r.type = topic /\ r.first = 0
                            THEN [r EXCEPT !.first = n.id] ELSE r
                 IN IF w \in woken
                      THEN [g EXCEPT !.status = "resolved", !.result = n.id,
                                     !.timer = FALSE, !.settled = @ + 1]
                      ELSE g],
        cs |-> [c \in 1..Len(st.cs) |->
                 LET r == st.cs[c]
                     g == IF r.status = "pending" /\ topic = "notification" /\ Pred(r.pred, n)
                            THEN [r EXCEPT !.expected = Append(@, n.id)] ELSE r
                 IN IF c \in fed /\ Pred(r.pred, n)
                      THEN [g EXCEPT !.events = push(@, n.id)]
                      ELSE g],
        emits |-> Append(st.emits, [topic |-> topic, n |-> n]),
        threw |-> bad # {} \/ (topic = "error" /\ idx = {})]

\* inbox.on(topic, handler): user code subscribes a handler that returns
\* normally or throws
On(topic, throws) ==
  /\ Len(listeners) < MaxListeners
  /\ Cardinality({ i \in 1..Len(listeners) : listeners[i].kind = "user" }) < MaxUserSubs
  /\ listeners' = Append(listeners,
                    [topic |-> topic, kind |-> "user", ref |-> 0, throws |-> throws])
  /\ last' = [NoTurn EXCEPT !.op = "on"]
  /\ UNCHANGED << hookVars, starting, opts, seen, latestTimestamp, running, connectedRelays, inflight,
                  timers, waits, collects, handled, accepted >>

\* inbox.off(topic, handler) of a subscribed user handler
Off(i) ==
  /\ i \in 1..Len(listeners)
  /\ listeners[i].kind = "user"
  /\ listeners' = Keep(listeners, (1..Len(listeners)) \ { i })
  /\ last' = [NoTurn EXCEPT !.op = "off"]
  /\ UNCHANGED << hookVars, starting, opts, seen, latestTimestamp, running, connectedRelays, inflight,
                  timers, waits, collects, handled, accepted >>

(***************************************************************************)
(* inbox.cjs: handleEvent                                                  *)
(***************************************************************************)
\* the dedup check forgotten
seenHas_never(s, id) == FALSE

\* ids compared by a truncated key, so that distinct ids collide
seenHas_truncated(s, id) == \E x \in Range(s) : x % 2 = id % 2

\* `seen.has(event.id)`
seenHas(s, id) == id \in Range(s)

\* the eviction forgotten
seenAdd_noEvict(s, id) == IF id \in Range(s) THEN s ELSE Append(s, id)

\* `seen.add(event.id)` and the eviction of the oldest ids past the cap
seenAdd(s, id) ==
  LET a == IF id \in Range(s) THEN s ELSE Append(s, id)
  IN IF Len(a) > SeenCap THEN SubSeq(a, SeenEvict + 1, Len(a)) ELSE a

\* the watermark overwritten by every accepted event
trackLatest_overwrite(ts, event) == event.created_at

\* `if (event.created_at > latestTimestamp) latestTimestamp = event.created_at`
trackLatest(ts, event) == IF event.created_at > ts THEN event.created_at ELSE ts

\* the watermark tracked before the dedup check
trackDropped_first(ts, event) == IF event.created_at > ts THEN event.created_at ELSE ts

\* the watermark after `if (dedup && seen.has(event.id)) return`: the return
\* precedes the update of latestTimestamp
trackDropped(ts, event) == ts

\* the notification handleEvent builds
Notification(event) ==
  LET c == classifyEvent(event, Pubkey)
  IN [id |-> event.id, type |-> c.type, priority |-> c.priority,
      from |-> event.pubkey, kind |-> event.kind,
      createdAt |-> event.created_at * 1000, dvmKind |-> c.dvmKind]

\* the three emits of handleEvent, in order
publish(st, n) ==
  LET st1 == emit(st, "notification", n)
      st2 == emit(st1, n.type, n)
  IN IF n.priority = "high" THEN emit(st2, "urgent", n) ELSE st2

\* the callback called with no try/catch around it
onEventEscapes_uncaught(cb) == cb = "throws"

\* `try { onEvent(notification); } catch (e) { /* user error */ }`: whether
\* an exception of the callback leaves handleEvent
onEventEscapes(cb) == FALSE

\* a subscribed relay delivers a raw event: `onevent: handleEvent`
handleEvent(event) ==
  /\ connectedRelays # << >>
  /\ \A c \in 1..Len(collects) :
       collects[c].status = "pending" => Len(collects[c].expected) < MaxCollected
  /\ IF opts.dedup /\ seenHas(seen, event.id)
       THEN /\ last' = [NoTurn EXCEPT !.op = "handleEvent", !.id = event.id,
                                      !.at = event.created_at]
            /\ latestTimestamp' = trackDropped(latestTimestamp, event)
            /\ UNCHANGED << seen, listeners, waits, collects, accepted >>
       ELSE LET st == publish([ls |-> listeners, ws |-> waits, cs |-> collects,
                               emits |-> << >>, threw |-> FALSE],
                              Notification(event))
            IN /\ seen' = IF opts.dedup THEN seenAdd(seen, event.id) ELSE seen
               /\ latestTimestamp' = trackLatest(latestTimestamp, event)
               /\ listeners' = st.ls
               /\ waits' = st.ws
               /\ collects' = st.cs
               /\ accepted' = accepted \cup { event.id }
               /\ last' = [op |-> "handleEvent", url |-> "", id |-> event.id,
                           at |-> event.created_at,
                           emits |-> st.emits,
                           called |-> ~st.threw /\ opts.onEvent # "none",
                           threw |-> st.threw \/ (opts.onEvent # "none"
                                                     /\ onEventEscapes(opts.onEvent)),
                           evicted |-> IF opts.dedup
                                         THEN Len(seen) + 1 - Len(seenAdd(seen, event.id))
                                         ELSE 0]
  /\ handled' = handled \cup { event.id }
  /\ UNCHANGED << hookVars, starting, opts, running, connectedRelays, inflight, timers >>

(***************************************************************************)
(* inbox.cjs: connectRelay, start, stop                                    *)
(***************************************************************************)
\* the subscription built from the `since` the inbox was created with
subscribeSince_original(ts) ==
  LET filters == buildFilters(Pubkey, DefaultChannels, Some(SeedTimestamp(opts)))
  IN [i \in 1..Len(filters) |-> filters[i].since]

\* `buildFilters(pubkey, channels, latestTimestamp)` as passed to
\* relay.subscribe: the `since` of each filter issued
subscribeSince(ts) ==
  LET filters == buildFilters(Pubkey, DefaultChannels, Some(ts))
  IN [i \in 1..Len(filters) |-> filters[i].since]

\* the start() calls that await the first connectRelay call to url
Awaiting(url) == { k \in 1..Len(starting) : url \in starting[k] }

\* the connectRelay calls to url in flight: 0 for one made by a reconnect
\* timer, k for the one the k-th pending start() call made
Attempts(url) ==
  Awaiting(url) \cup (IF inflight[url] > Cardinality(Awaiting(url)) THEN { 0 } ELSE { })

\* Promise.all in the place of Promise.allSettled: a rejected connectRelay
\* call rejects start()
allSettled_all(rejected) == ~rejected

\* `await Promise.allSettled(relayUrls.map(connectRelay))`: whether start()
\* goes on once the last connectRelay call has settled, one of them rejected
\* or not
allSettled(rejected) == TRUE

\* the connectRelay call k to url settles: the start() call awaiting it
\* goes on once it was the last one, `emitter.emit('started', { connected:
\* connectedRelays.length, total: relayUrls.length })`
started(st, k, url, relays, rejected) ==
  IF k # 0 /\ starting[k] = { url } /\ allSettled(rejected)
    THEN emit([st EXCEPT !.threw = FALSE], "started",
              [connected |-> Len(relays), total |-> Cardinality(RelayUrls)])
    ELSE st

\* the start() calls still awaiting after the connectRelay call k to url settled
settledOne(k, url) ==
  LET less == [j \in 1..Len(starting) |->
                IF j = k THEN starting[j] \ { url } ELSE starting[j]]
  IN Keep(less, { j \in 1..Len(less) : less[j] # { } })

\* Promise.race settles with an open relay: subscribe, record the connection
connectResolved(url) ==
  /\ inflight[url] > 0
  /\ inflight' = [inflight EXCEPT ![url] = @ - 1]
  /\ connectedRelays' = Append(connectedRelays,
                          [url |-> url, since |-> subscribeSince(latestTimestamp)])
  /\ \E k \in Attempts(url) :
       LET st == started([ls |-> listeners, ws |-> waits, cs |-> collects,
                          emits |-> << >>, threw |-> FALSE],
                         k, url, connectedRelays', FALSE)
       IN /\ starting' = settledOne(k, url)
          /\ last' = [NoTurn EXCEPT !.op = "connected", !.url = url,
                                    !.emits = st.emits]
  /\ UNCHANGED << hookVars, opts, seen, latestTimestamp, running, timers, listeners,
                  waits, collects, handled, accepted >>

\* whether the catch block of connectRelay reaches `if (running) setTimeout(...)`:
\* emitter.emit('error') and onError(error) both returned normally
catchCompletes(st, onError) == ~st.threw /\ onError # "throws"

\* Promise.race rejects (connect failure or connect timeout): the catch block
connectRejected(url) ==
  /\ inflight[url] > 0
  /\ inflight' = [inflight EXCEPT ![url] = @ - 1]
  /\ \E k \in Attempts(url) :
       LET st == emit([ls |-> listeners, ws |-> waits, cs |-> collects,
                       emits |-> << >>, threw |-> FALSE],
                      "error", [relay |-> url])
           rejected == ~catchCompletes(st, opts.onError)
           st2 == started(st, k, url, connectedRelays, rejected)
       IN /\ timers' = IF catchCompletes(st, opts.onError) /\ running
                         THEN [timers EXCEPT ![url] = @ + 1] ELSE timers
          /\ starting' = settledOne(k, url)
          /\ last' = [op |-> "connectError", url |-> url, id |-> 0, at |-> 0,
                      emits |-> st2.emits,
                      called |-> ~st.threw /\ opts.onError # "none",
                      threw |-> rejected,
                      evicted |-> 0]
  /\ UNCHANGED << hookVars, opts, seen, latestTimestamp, running, connectedRelays,
                  listeners, waits, collects, handled, accepted >>

\* whether the reconnect timer's callback calls connectRelay:
\* `setTimeout(() => connectRelay(url), reconnectMs)` does not look at `running`
timerConnects(isRunning) == TRUE

\* a reconnect timer fires
reconnectTimer(url) ==
  /\ timers[url] > 0
  /\ timers' = [timers EXCEPT ![url] = @ - 1]
  /\ inflight' = IF timerConnects(running)
                   THEN [inflight EXCEPT ![url] = @ + 1] ELSE inflight
  /\ last' = [NoTurn EXCEPT !.op = "reconnect", !.url = url]
  /\ UNCHANGED << hookVars, starting, opts, seen, latestTimestamp, running, connectedRelays,
                  listeners, waits, collects, handled, accepted >>

\* a subscribed relay loses its connection: relay.subscribe was given
\* onevent and oneose only and the relay no close handler, so no code of the
\* inbox runs and the relay stays in connectedRelays
connectionLost(url) ==
  /\ \E i \in 1..Len(connectedRelays) : connectedRelays[i].url = url
  /\ last' = [NoTurn EXCEPT !.op = "closed", !.url = url]
  /\ UNCHANGED << hookVars, starting, opts, seen, latestTimestamp, running,
                  connectedRelays, inflight, timers, listeners, waits, collects,
                  handled, accepted >>

\* inbox.start(): a no-op while running, else connectRelay for every relay
start ==
  IF running THEN UNCHANGED vars
  ELSE /\ \A u \in RelayUrls : inflight[u] + timers[u] < MaxPending
       /\ running' = TRUE
       /\ inflight' = [u \in RelayUrls |-> inflight[u] + 1]
       /\ starting' = Append(starting, RelayUrls)
       /\ last' = [NoTurn EXCEPT !.op = "start"]
       /\ UNCHANGED << hookVars, opts, seen, latestTimestamp, connectedRelays, timers,
                       listeners, waits, collects, handled, accepted >>

\* inbox.stop(): close and forget the active connections
stop ==
  /\ running' = FALSE
  /\ connectedRelays' = << >>
  /\ last' = [NoTurn EXCEPT !.op = "stop"]
  /\ UNCHANGED << hookVars, starting, opts, seen, latestTimestamp, inflight, timers, listeners,
                  waits, collects, handled, accepted >>

(***************************************************************************)
(* inbox.cjs: waitFor, collect                                             *)
(***************************************************************************)
\* inbox.waitFor(type, timeoutMs): arm the timer, register the once-listener
waitFor(type) ==
  /\ Len(waits) + Len(collects) < MaxCalls
  /\ Len(listeners) < MaxListeners
  /\ waits' = Append(waits, [type |-> type, status |-> "pending", result |-> 0,
                             timer |-> TRUE, settled |-> 0, first |-> 0])
  /\ listeners' = Append(listeners, [topic |-> type, kind |-> "wait",
                                     ref |-> Len(waits) + 1, throws |-> FALSE])
  /\ last' = [NoTurn EXCEPT !.op = "waitFor"]
  /\ UNCHANGED << hookVars, starting, opts, seen, latestTimestamp, running, connectedRelays, inflight,
                  timers, collects, handled, accepted >>

\* `emitter.off(type, handler)` of the listener a waitFor / collect call registered
offOwn(ls, kind, ref) ==
  Keep(ls, { i \in 1..Len(ls) : ~(ls[i].kind = kind /\ ls[i].ref = ref) })

\* the timer of waitFor fires: deregister, reject
waitTimeout(i) ==
  /\ i \in 1..Len(waits)
  /\ waits[i].timer
  /\ listeners' = offOwn(listeners, "wait", i)
  /\ waits' = [waits EXCEPT ![i] = [@ EXCEPT !.status = "rejected", !.timer = FALSE,
                                            !.settled = @ + 1]]
  /\ last' = [NoTurn EXCEPT !.op = "waitTimeout"]
  /\ UNCHANGED << hookVars, starting, opts, seen, latestTimestamp, running, connectedRelays, inflight,
                  timers, collects, handled, accepted >>

\* inbox.collect(durationMs, filter): register the listener, arm the timer
collect(pred) ==
  /\ Len(waits) + Len(collects) < MaxCalls
  /\ Len(listeners) < MaxListeners
  /\ collects' = Append(collects, [pred |-> pred, status |-> "pending", events |-> << >>,
                                   timer |-> TRUE, expected |-> << >>])
  /\ listeners' = Append(listeners, [topic |-> "notification", kind |-> "collect",
                                     ref |-> Len(collects) + 1, throws |-> FALSE])
  /\ last' = [NoTurn EXCEPT !.op = "collect"]
  /\ UNCHANGED << hookVars, starting, opts, seen, latestTimestamp, running, connectedRelays, inflight,
                  timers, waits, handled, accepted >>

\* the timer of collect fires: deregister, resolve with what was accumulated
collectTimeout(i) ==
  /\ i \in 1..Len(collects)
  /\ collects[i].timer
  /\ listeners' = offOwn(listeners, "collect", i)
  /\ collects' = [collects EXCEPT ![i] = [@ EXCEPT !.status = "resolved", !.timer = FALSE]]
  /\ last' = [NoTurn EXCEPT !.op = "collectTimeout"]
  /\ UNCHANGED << hookVars, starting, opts, seen, latestTimestamp, running, connectedRelays, inflight,
                  timers, waits, handled, accepted >>

(***************************************************************************)
(* Specifications                                                          *)
(***************************************************************************)
\* the clock when createInbox runs
NowSec == SeedDelta + 2

\* an inbox as created, with or without `since` and onError
LinkOpts ==
  [dedup : { TRUE }, since : { None, Some(5) }, now : { NowSec },
   onEvent : { "none" }, onError : { "none", "ok", "throws" }]

\* Connections and ingestion: an inbox as created with no onError, or with
\* `since` and an onError that throws; user code may subscribe a handler
\* to `error`
ConnOpts ==
  { o \in LinkOpts : o.onError = (IF o.since = None THEN "none" ELSE "throws") }

Init == NoHook /\ \E o \in ConnOpts : Created(o)

Next ==
  \/ start
  \/ stop
  \/ \E u \in RelayUrls : connectResolved(u)
  \/ \E u \in RelayUrls : connectRejected(u)
  \/ \E u \in RelayUrls : reconnectTimer(u)
  \/ \E e \in Events(NumConnIds) : handleEvent(e)
  \/ On("error", FALSE)
  \/ \E i \in 1..MaxListeners : Off(i)

Spec == Init /\ [][Next]_vars

\* Connections that can be lost once subscribed
InitLink == NoHook /\ \E o \in LinkOpts : Created(o)

NextLink ==
  \/ start
  \/ stop
  \/ \E u \in RelayUrls : connectResolved(u)
  \/ \E u \in RelayUrls : connectRejected(u)
  \/ \E u \in RelayUrls : reconnectTimer(u)
  \/ \E u \in RelayUrls : connectionLost(u)
  \/ On("error", FALSE)

SpecLink == InitLink /\ [][NextLink]_vars

\* the inbox after start() with relay r1 subscribed and r2 still connecting
Subscribed(o) ==
  /\ opts = o
  /\ seen = << >>
  /\ latestTimestamp = SeedTimestamp(o)
  /\ running = TRUE
  /\ connectedRelays = << [url |-> "r1", since |-> subscribeSince(SeedTimestamp(o))] >>
  /\ inflight = [u \in RelayUrls |-> IF u = "r1" THEN 0 ELSE 1]
  /\ timers = [u \in RelayUrls |-> 0]
  /\ listeners = << >>
  /\ waits = << >>
  /\ collects = << >>
  /\ last = [NoTurn EXCEPT !.op = "connected", !.url = "r1"]
  /\ handled = { }
  /\ accepted = { }
  /\ starting = << { "r2" } >>

\* Ingestion: handleEvent on a subscribed inbox, dedup on or off
IngestOpts ==
  [dedup : BOOLEAN, since : { None }, now : { NowSec },
   onEvent : { "none", "ok", "throws" }, onError : { "none" }]

InitIngest == NoHook /\ \E o \in IngestOpts : Subscribed(o)

NextIngest ==
  \/ \E e \in Events(NumIds) : handleEvent(e)
  \/ \E b \in BOOLEAN : On("notification", b)
  \/ \E i \in 1..MaxListeners : Off(i)

SpecIngest == InitIngest /\ [][NextIngest]_vars

\* The bus: waitFor and collect on a subscribed inbox
BusOpts ==
  [dedup : BOOLEAN, since : { None }, now : { NowSec },
   onEvent : { "none" }, onError : { "none" }]

InitBus == NoHook /\ \E o \in BusOpts : Subscribed(o)

NextBus ==
  \/ \E e \in Events(NumBusIds) : handleEvent(e)
  \/ \E t \in { "notification", "dm" }, b \in BOOLEAN : On(t, b)
  \/ \E i \in 1..MaxListeners : Off(i)
  \/ \E t \in WaitTypes : waitFor(t)
  \/ \E i \in 1..MaxCalls : waitTimeout(i)
  \/ \E p \in Predicates : collect(p)
  \/ \E i \in 1..MaxCalls : collectTimeout(i)

SpecBus == InitBus /\ [][NextBus]_vars

\* Duplicates: a subscribed inbox to which relays deliver raw events and
\* copies of them that carry the same id and a later created_at, with
\* subscribers and a collect call listening
Resent(event) == [event EXCEPT !.created_at = @ + ResendDelay]

DupOpts ==
  [dedup : { TRUE }, since : { None }, now : { NowSec },
   onEvent : { "none", "ok" }, onError : { "none" }]

InitDup == NoHook /\ \E o \in DupOpts : Subscribed(o)

NextDup ==
  \/ \E i \in 1..NumDupIds : handleEvent(EventOf(i))
  \/ \E i \in 1..NumDupIds : handleEvent(Resent(EventOf(i)))
  \/ On("notification", FALSE)
  \/ \E i \in 1..MaxListeners : Off(i)
  \/ Len(collects) < MaxDupCalls /\ collect("none")
  \/ \E i \in 1..MaxCalls : collectTimeout(i)

SpecDup == InitDup /\ [][NextDup]_vars

(***************************************************************************)
(* webhooks.cjs: signing and verification                                  *)
(*                                                                         *)
(* A string is the sequence of its characters, a character of text being   *)
(* << c >>.  HMAC-SHA256 is taken to be collision free: the digest of a    *)
(* key and a message is a sequence of HexLen hex digits << key, msg, j >>  *)
(* that no other key and message produce.                                  *)
(***************************************************************************)
\* `digest('hex')`: the hex digits of a SHA-256 digest, scaled 64 -> 2
HexLen == 2

\* the character outside ASCII that input strings may hold (two bytes in UTF-8)
NonAscii == << "U+00E9" >>

\* the string with the characters s
Str(s) == [i \in 1..Len(s) |-> << s[i] >>]

\* `!x` is false for an optional string that is present and not empty
Truthy(x) == x # None /\ x # Some(<< >>)

\* `Buffer.from(str).length`, `Buffer.byteLength(str)`
ByteLength(str) == Len(str) + Cardinality({ i \in 1..Len(str) : str[i] = NonAscii })

\* `crypto.createHmac('sha256', key).update(msg).digest('hex')`
hmacHex(key, msg) == [j \in 1..HexLen |-> << key, msg, j >>]

\* `sha256=`
Sha256Prefix == Str(<< "s", "h", "a", "2", "5", "6", "=" >>)

\* every payload signed, under an empty key
sign_unkeyed(secret, payload) == Some(hmacHex(<< >>, payload))

\* sign(payload) of a dispatcher created with `secret`
sign(secret, payload) ==
  IF ~Truthy(secret) THEN None ELSE Some(hmacHex(secret[1], payload))

\* the value of the X-Signature-256 header, absent when sign returns null
SignatureHeader(signature) ==
  IF signature = None THEN None ELSE Some(Sha256Prefix \o signature[1])

\* `crypto.timingSafeEqual(Buffer.from(a), Buffer.from(b))` throws when the
\* byte lengths differ
timingSafeEqual(a, b) ==
  IF ByteLength(a) # ByteLength(b) THEN "throws"
  ELSE IF a = b THEN "true" ELSE "false"

\* the comparison stops at the prefix
verifySignature_prefixOnly(payload, signature, secret) ==
  IF ~Truthy(signature) \/ ~Truthy(secret) THEN "false"
  ELSE LET expected == Sha256Prefix \o hmacHex(secret[1], payload)
       IN IF Len(signature[1]) # Len(expected) THEN "false"
          ELSE timingSafeEqual(SubSeq(signature[1], 1, Len(Sha256Prefix)),
                               SubSeq(expected, 1, Len(Sha256Prefix)))

verifySignature(payload, signature, secret) ==
  IF ~Truthy(signature) \/ ~Truthy(secret) THEN "false"
  ELSE LET expected == Sha256Prefix \o hmacHex(secret[1], payload)
       IN IF Len(signature[1]) # Len(expected) THEN "false"
          ELSE timingSafeEqual(signature[1], expected)

(***************************************************************************)
(* webhooks.cjs: delivery                                                  *)
(*                                                                         *)
(* Every action is one turn of the event loop: a call of send() or close() *)
(* up to its first await, the batch timer, an event of an HTTP request, or *)
(* a backoff timer.  The pipeline state hs holds the dispatcher's          *)
(* variables while a turn runs.                                            *)
(***************************************************************************)
\* `Date.now()` when an envelope is made
NowMs == NowSec * 1000

\* `JSON.stringify(payload)`: the text of the payload
JSONstringify(payload) == Str(<< payload >>)

HookState(op) ==
  [batch |-> batch, batchTimer |-> batchTimer, envelopes |-> envelopes,
   attempts |-> attempts, closeCalls |-> closeCalls, uncaught |-> uncaught,
   turn |-> [NoHookTurn EXCEPT !.op = op]]

\* the turn ends
Commit(hs) ==
  /\ batch' = hs.batch
  /\ batchTimer' = hs.batchTimer
  /\ envelopes' = hs.envelopes
  /\ attempts' = hs.attempts
  /\ closeCalls' = hs.closeCalls
  /\ uncaught' = hs.uncaught
  /\ hlast' = hs.turn
  /\ UNCHANGED << starting, opts, seen, latestTimestamp, running, connectedRelays, inflight,
                  timers, listeners, waits, collects, last, handled, accepted,
                  hopts, call >>

\* sendRequest(payload, attempt), up to req.end(): the body is signed and
\* the request written
sendRequest(hs, e, attempt) ==
  LET payload == hs.envelopes[e].payload
      payloadStr == JSONstringify(payload)
      signature == sign(hopts.secret, payloadStr)
      req == [env |-> e, attempt |-> attempt, body |-> payloadStr,
              event |-> payload.event, signature |-> SignatureHeader(signature)]
  IN [hs EXCEPT !.attempts = Append(@, [env |-> e, attempt |-> attempt,
                                        phase |-> "request", delay |-> 0]),
                !.envelopes[e].requests = @ + 1,
                !.turn.issued = Append(@, req)]

\* `await sendRequest(payload)` inside try/catch, by send (caller "send"),
\* flushBatch run by the timer ("timer") or by close() number ref ("close")
deliver(hs, payload, caller, ref) ==
  LET e == Len(hs.envelopes) + 1
      hs1 == [hs EXCEPT !.envelopes =
                          Append(@, [payload |-> payload, promise |-> "pending",
                                     caller |-> caller, ref |-> ref,
                                     result |-> "pending", requests |-> 0,
                                     successes |-> 0, failures |-> 0]),
                        !.turn.created = Append(@, e)]
  IN sendRequest(hs1, e, 1)

\* `clearTimeout(batchTimer)`: the pending timer the handle names is cancelled
clearTimeout_noop(t) == t

clearTimeout(t) == IF t = "armed" THEN "stale" ELSE t

\* the handle kept where the code assigns null
forget_kept(t) == t

\* `batchTimer = null`: a pending timer stays pending
forget(t) == IF t \in { "armed", "orphan" } THEN "orphan" ELSE "null"

\* the pending timer fires
fire(t) == IF t = "armed" THEN "stale" ELSE "null"

\* the whole batch is kept and only its first notification sent
flushBatch_first(hs, caller, ref) ==
  IF hs.batch = << >> THEN hs
  ELSE deliver([hs EXCEPT !.batchTimer = forget(@)],
               [event |-> "batch", timestamp |-> NowMs, count |-> 1,
                notifications |-> SubSeq(hs.batch, 1, 1)], caller, ref)

\* the batch sent by `batch.slice(0, maxBatchSize)`: nothing is taken out
flushBatch_keep(hs, caller, ref) ==
  IF hs.batch = << >> THEN hs
  ELSE LET k == IF Len(hs.batch) < hopts.maxBatchSize
                  THEN Len(hs.batch) ELSE hopts.maxBatchSize
           toSend == SubSeq(hs.batch, 1, k)
       IN deliver([hs EXCEPT !.batchTimer = forget(@)],
                  [event |-> "batch", timestamp |-> NowMs,
                   count |-> Len(toSend), notifications |-> toSend],
                  caller, ref)

\* flushBatch()
flushBatch(hs, caller, ref) ==
  IF hs.batch = << >> THEN hs
  ELSE LET k == IF Len(hs.batch) < hopts.maxBatchSize
                  THEN Len(hs.batch) ELSE hopts.maxBatchSize
           toSend == SubSeq(hs.batch, 1, k)
           hs1 == [hs EXCEPT !.batch = SubSeq(@, k + 1, Len(@)),
                             !.batchTimer = forget(@)]
       IN deliver(hs1, [event |-> "batch", timestamp |-> NowMs,
                        count |-> Len(toSend), notifications |-> toSend],
                  caller, ref)

\* the type filter forgotten
passes_anyType(o, notification) ==
  ~o.urgentOnly \/ notification.priority = "high"

\* the urgency filter forgotten
passes_anyPriority(o, notification) ==
  o.events = None \/ notification.type \in Range(o.events[1])

\* the two filters of send()
passes(o, notification) ==
  /\ o.events = None \/ notification.type \in Range(o.events[1])
  /\ ~o.urgentOnly \/ notification.priority = "high"

\* send(notification), and handler(notification) which calls it
send(notification) ==
  LET hs == HookState("send") IN
  /\ submitted' = Append(submitted, notification)
  /\ IF ~passes(hopts, notification) THEN Commit(hs)
     ELSE IF hopts.batchMs > 0
       THEN LET hs1 == [hs EXCEPT !.batch = Append(@, notification)] IN
            IF Len(hs1.batch) >= hopts.maxBatchSize
              THEN Commit(flushBatch(
                     [hs1 EXCEPT !.batchTimer = clearTimeout(@),
                                 !.turn.cleared = (clearTimeout(hs.batchTimer) # hs.batchTimer)],
                     "send", 0))
            ELSE IF hs1.batchTimer \in { "null", "orphan" }
              THEN Commit([hs1 EXCEPT !.batchTimer = "armed"])
            ELSE Commit(hs1)
     ELSE Commit(deliver(hs, [event |-> "notification", timestamp |-> NowMs,
                              notification |-> notification], "send", 0))

\* the batch timer fires: `setTimeout(flushBatch, batchMs)`
batchTimerFires ==
  /\ batchTimer \in { "armed", "orphan" }
  /\ Commit(flushBatch([HookState("batchTimer") EXCEPT !.batchTimer = fire(@)], "timer", 0))
  /\ UNCHANGED submitted

\* the continuation of `await sendRequest(payload)` when the promise settles:
\* the try/catch of send and flushBatch swallows a rejection
awaited(how) == "resolved"

\* resolve / reject of the promise sendRequest returned for envelope e: the
\* first settlement counts, and the caller that awaits it goes on
settle(hs, e, how) ==
  IF hs.envelopes[e].promise # "pending" THEN hs
  ELSE LET env == hs.envelopes[e]
           hs1 == [hs EXCEPT !.envelopes[e].promise = how,
                             !.envelopes[e].result = awaited(how)]
       IN IF env.caller = "close"
            THEN [hs1 EXCEPT !.closeCalls[env.ref].status = "returned",
                             !.turn.returned = Append(@, env.ref)]
            ELSE hs1

\* `if (onSuccess) onSuccess(...); resolve(...)`: an exception of the
\* callback leaves the http callback before resolve runs
succeed(hs, e) ==
  LET hs1 == [hs EXCEPT !.envelopes[e].successes = @ + 1] IN
  IF hopts.onSuccess = "throws" THEN [hs1 EXCEPT !.uncaught = @ \cup { "onSuccess" }]
  ELSE settle(hs1, e, "resolved")

\* `if (onError) onError(err, payload); reject(err)`
fail(hs, e) ==
  LET hs1 == [hs EXCEPT !.envelopes[e].failures = @ + 1] IN
  IF hopts.onError = "throws" THEN [hs1 EXCEPT !.uncaught = @ \cup { "onError" }]
  ELSE settle(hs1, e, "rejected")

\* the exponent counted from 0: 1 s before the first retry
backoffMs_fromZero(attempt) == IF attempt = 1 THEN 1000 ELSE 1000 * 2 ^ (attempt - 1)

\* `Math.pow(2, attempt) * 1000`
Pow2(n) == LET F[i \in 0..n] == IF i = 0 THEN 1 ELSE 2 * F[i - 1] IN F[n]
backoffMs(attempt) == Pow2(attempt) * 1000

\* `if (attempt <= retries) setTimeout(() => sendRequest(payload, attempt + 1)
\* .then(resolve).catch(reject), 2^attempt * 1000) else { onError; reject }`
retryOrFail(hs, e, attempt) ==
  IF attempt <= hopts.retries
    THEN [hs EXCEPT !.attempts = Append(@, [env |-> e, attempt |-> attempt + 1,
                                            phase |-> "backoff",
                                            delay |-> backoffMs(attempt)])]
    ELSE fail(hs, e)

\* the pipeline state of a turn that handles attempts[i]
Handling(op, i) ==
  [HookState(op) EXCEPT !.attempts = Keep(attempts, (1..Len(attempts)) \ { i })]

\* res.on('end'): the response to request attempts[i] is complete
response(i, statusCode) ==
  /\ i \in 1..Len(attempts)
  /\ attempts[i].phase = "request"
  /\ LET a == attempts[i]
         hs == Handling("response", i)
     IN IF statusCode >= 200 /\ statusCode < 300
          THEN Commit(succeed(hs, a.env))
          ELSE Commit(retryOrFail(hs, a.env, a.attempt))
  /\ UNCHANGED submitted

\* req.on('error'): request attempts[i] fails in the transport
requestError(i) ==
  /\ i \in 1..Len(attempts)
  /\ attempts[i].phase = "request"
  /\ LET a == attempts[i]
     IN Commit(retryOrFail(Handling("error", i), a.env, a.attempt))
  /\ UNCHANGED submitted

\* req.on('timeout'): the socket of request attempts[i] is idle for
\* timeoutMs.  The handler destroys the request, and a request destroyed
\* before its response emits 'error' (socket hang up), so the 'error'
\* handler runs for the same attempt too.
requestTimeout(i) ==
  /\ i \in 1..Len(attempts)
  /\ attempts[i].phase = "request"
  /\ LET a == attempts[i]
         hs1 == retryOrFail(Handling("timeout", i), a.env, a.attempt)
     IN Commit(retryOrFail(hs1, a.env, a.attempt))
  /\ UNCHANGED submitted

\* a backoff timer fires: `sendRequest(payload, attempt + 1)`
backoffTimer(i) ==
  /\ i \in 1..Len(attempts)
  /\ attempts[i].phase = "backoff"
  /\ LET a == attempts[i]
     IN Commit(sendRequest(Handling("backoff", i), a.env, a.attempt))
  /\ UNCHANGED submitted

\* close(), up to its await
close ==
  LET hs == HookState("close")
      c == Len(closeCalls) + 1
      hs1 == IF hs.batchTimer \in { "armed", "stale" }
               THEN [hs EXCEPT !.batchTimer = forget(clearTimeout(@)),
                               !.turn.cleared = (clearTimeout(hs.batchTimer) # hs.batchTimer)]
               ELSE hs
  IN /\ Len(closeCalls) < MaxCloses
     /\ IF hs1.batch # << >>
          THEN Commit(flushBatch(
                 [hs1 EXCEPT !.closeCalls =
                    Append(@, [status |-> "awaiting", env |-> Len(envelopes) + 1,
                               pending |-> batch])],
                 "close", c))
          ELSE Commit([hs1 EXCEPT !.closeCalls =
                         Append(@, [status |-> "returned", env |-> 0,
                                    pending |-> << >>]),
                       !.turn.returned = << c >>])
     /\ UNCHANGED submitted

(***************************************************************************)
(* The dispatcher's specifications                                         *)
(***************************************************************************)
\* an inbox that is created and never used
UnusedInbox ==
  Created([dedup |-> TRUE, since |-> None, now |-> NowSec,
           onEvent |-> "none", onError |-> "none"])

\* Filtering and batching: the endpoint answers every request with 2xx
BatchOpts ==
  { o \in [secret : { None }, events : { None, Some(<< "mention", "dm" >>) },
           urgentOnly : BOOLEAN, batchMs : { 0, 50 }, maxBatchSize : { 1, 3, 100 },
           retries : { 0 }, onError : { "none" }, onSuccess : { "none" }] :
      (o.batchMs = 0) = (o.maxBatchSize = 100) }

InitBatch == UnusedInbox /\ call = NoCall /\ \E o \in BatchOpts : createWebhook(o)

NextBatch ==
  \/ \E i \in 1..NumHookIds :
       Len(submitted) < MaxSubmits /\ send(Notification(EventOf(i)))
  \/ batchTimerFires
  \/ \E i \in 1..Len(attempts) : response(i, 200)
  \/ close

SpecBatch == InitBatch /\ [][NextBatch]_vars

\* Delivery: one endpoint that answers, fails or stays silent; retries,
\* signing and the callbacks of user code
DeliverOpts ==
  { o \in [secret : { None, Some(<< >>), Some(Str(<< "k", 1 >>)) }, events : { None },
           urgentOnly : { FALSE }, batchMs : { 0, 50 }, maxBatchSize : { 2, 100 },
           retries : { 0, 1 }, onError : { "none", "throws" },
           onSuccess : { "ok", "throws" }] :
      /\ (o.batchMs = 0) = (o.maxBatchSize = 100)
      /\ o.secret = None \/ (o.onError = "none" /\ o.onSuccess = "ok") }

InitDeliver == UnusedInbox /\ call = NoCall /\ \E o \in DeliverOpts : createWebhook(o)

NextDeliver ==
  \/ \E i \in 1..NumDeliverIds :
       Len(submitted) < MaxDeliveries /\ send(Notification(EventOf(i)))
  \/ batchTimerFires
  \/ \E i \in 1..Len(attempts), st \in { 200, 500 } : response(i, st)
  \/ \E i \in 1..Len(attempts) : requestError(i)
  \/ \E i \in 1..Len(attempts) : requestTimeout(i)
  \/ \E i \in 1..Len(attempts) : backoffTimer(i)
  \/ close

SpecDeliver == InitDeliver /\ [][NextDeliver]_vars

\* Batching with retries: a dispatcher that batches by two, with or without
\* one retry, and an endpoint that answers, refuses or cannot be reached
NumRetryIds == 2
MaxBatched == 2

RetryOpts ==
  { o \in DeliverOpts : /\ o.secret = None /\ o.batchMs > 0
                        /\ o.onError = "none" /\ o.onSuccess = "ok" }

InitRetry == UnusedInbox /\ call = NoCall /\ \E o \in RetryOpts : createWebhook(o)

NextRetry ==
  \/ \E i \in 1..NumRetryIds :
       Len(submitted) < MaxBatched /\ send(Notification(EventOf(i)))
  \/ batchTimerFires
  \/ \E i \in 1..Len(attempts), st \in { 200, 500 } : response(i, st)
  \/ \E i \in 1..Len(attempts) : requestError(i)
  \/ \E i \in 1..Len(attempts) : backoffTimer(i)
  \/ close

SpecRetry == InitRetry /\ [][NextRetry]_vars

\* Backoff: a dispatcher with the default options (no batching, two
\* retries) or with three retries, and an endpoint that answers, refuses
\* or cannot be reached
MaxBackoffSends == 2

BackoffOpts == { [DefaultHookOpts EXCEPT !.retries = r] : r \in { 2, 3 } }

InitBackoff == UnusedInbox /\ call = NoCall /\ \E o \in BackoffOpts : createWebhook(o)

NextBackoff ==
  \/ \E i \in 1..NumDeliverIds :
       Len(submitted) < MaxBackoffSends /\ send(Notification(EventOf(i)))
  \/ \E i \in 1..Len(attempts), st \in { 200, 500 } : response(i, st)
  \/ \E i \in 1..Len(attempts) : requestError(i)
  \/ \E i \in 1..Len(attempts) : backoffTimer(i)

SpecBackoff == InitBackoff /\ [][NextBackoff]_vars

\* Signing: the requests of a dispatcher created without a secret, with an
\* empty one and with a secret, with callbacks that return
InitSign ==
  /\ UnusedInbox
  /\ call = NoCall
  /\ \E o \in { x \in DeliverOpts : x.onError = "none" /\ x.onSuccess = "ok" } :
        createWebhook(o)

NextSign ==
  \/ \E i \in 1..NumDeliverIds :
       Len(submitted) < MaxSigned /\ send(Notification(EventOf(i)))
  \/ batchTimerFires
  \/ \E i \in 1..Len(attempts), st \in { 200, 500 } : response(i, st)
  \/ \E i \in 1..Len(attempts) : requestError(i)
  \/ \E i \in 1..Len(attempts) : requestTimeout(i)
  \/ \E i \in 1..Len(attempts) : backoffTimer(i)
  \/ close

SpecSign == InitSign /\ [][NextSign]_vars

(***************************************************************************)
(* Calls of the pure functions                                             *)
(***************************************************************************)
\* the pending call returns
return(fn, value) ==
  /\ call.fn = fn
  /\ call.ret = None
  /\ call' = [call EXCEPT !.ret = Some(value)]
  /\ UNCHANGED << starting, opts, seen, latestTimestamp, running, connectedRelays, inflight,
                  timers, listeners, waits, collects, last, handled, accepted,
                  hopts, batch, batchTimer, envelopes, attempts, closeCalls,
                  submitted, uncaught, hlast >>

\* an inbox and a dispatcher that are created and never used
Unused == UnusedInbox /\ createWebhook(DefaultHookOpts)

\* bodies and secrets the signature functions are called with
NumBodies == 2
NumSecrets == 2
Bodies == { Str(<< "b", i >>) : i \in 1..NumBodies }
Secrets == { None, Some(<< >>) } \cup { Some(Str(<< "k", i >>)) : i \in 1..NumSecrets }

\* header values a receiver may be handed: none, the empty string, and for
\* every body and secret the header the dispatcher sends, that header cut
\* short, extended, without its prefix, with another prefix, and with its
\* last hex digit replaced by a character outside ASCII
HeaderValues ==
  { None, Some(<< >>) }
  \cup UNION { LET h == SignatureHeader(sign(k, b))[1]
               IN { Some(h),
                    Some(SubSeq(h, 1, Len(h) - 1)),
                    Some(h \o Str(<< "0" >>)),
                    Some(SubSeq(h, Len(Sha256Prefix) + 1, Len(h))),
                    Some(Str(<< "s", "h", "a", "5", "1", "2", "=" >>)
                           \o SubSeq(h, Len(Sha256Prefix) + 1, Len(h))),
                    Some(SubSeq(h, 1, Len(h) - 1) \o << NonAscii >>) }
              : b \in Bodies, k \in { x \in Secrets : Truthy(x) } }

InitSig ==
  /\ Unused
  /\ \E b \in Bodies, h \in HeaderValues, k \in Secrets :
        call = [fn |-> "verifySignature", args |-> << b, h, k >>, ret |-> None]

verify ==
  return("verifySignature", verifySignature(call.args[1], call.args[2], call.args[3]))

NextSig == verify

SpecSig == InitSig /\ [][NextSig]_vars

\* kinds on both sides of the work-kind boundaries, every kind the rule
\* engine names, and kinds it does not name
KindSpread == 1
ClassifyKinds ==
  { b + d : b \in { 5000, 6000, 7000 }, d \in (0 - KindSpread)..KindSpread }
  \cup { KIND_TEXT_NOTE, KIND_DM_ENCRYPTED, KIND_GIFT_WRAP, KIND_LABEL,
         KIND_REACTION, KIND_ZAP_RECEIPT, KIND_BID, KIND_DELIVERY, KIND_RESOLUTION,
         KIND_COMMENT }
  \cup { 0, 2, 949, 953, 1984, 9734, 30950 }

\* tag lists: none, addressed to the watcher, addressed to someone else, a
\* short row, the watcher in the second row, and a row with a relay hint
TagLists ==
  { << >>, << << "p", Pubkey >> >>, << << "p", "Q" >>, << "e", "x" >> >>, << << "p" >> >>,
    << << "p", "Q" >>, << "p", Pubkey >> >>, << << "p", Pubkey, "hint" >> >> }

InitClassify ==
  /\ Unused
  /\ \E k \in ClassifyKinds, t \in TagLists, me \in { Pubkey, "Q" } :
        call = [fn |-> "classifyEvent",
                args |-> << [id |-> 1, kind |-> k, created_at |-> 1,
                             pubkey |-> "Q", tags |-> t], me >>,
                ret |-> None]

classify == return("classifyEvent", classifyEvent(call.args[1], call.args[2]))

NextClassify == classify

SpecClassify == InitClassify /\ [][NextClassify]_vars

\* channel configurations: every channel on or off, with no kind list, an
\* empty one, and lists of one and two kinds (not in ascending order)
ChannelConfigs ==
  [mentions : BOOLEAN, dms : BOOLEAN, dvmRequests : BOOLEAN, dvmResults : BOOLEAN,
   zaps : BOOLEAN, reactions : BOOLEAN, trust : BOOLEAN, marketplace : BOOLEAN,
   dvmKinds : { None, Some(<< >>), Some(<< 5100 >>), Some(<< 5300, 5100 >>) }]

\* watermarks passed as `since`: null, 0 and later times
MaxSince == 2
Watermarks == { None } \cup { Some(t) : t \in 0..MaxSince }

InitFilters ==
  /\ Unused
  /\ \E pk \in { Pubkey, "Q" }, ch \in ChannelConfigs, w \in Watermarks :
        call = [fn |-> "buildFilters", args |-> << pk, ch, w >>, ret |-> None]

build == return("buildFilters", buildFilters(call.args[1], call.args[2], call.args[3]))

NextFilters == build

SpecFilters == InitFilters /\ [][NextFilters]_vars

(***************************************************************************)
(* Properties                                                              *)
(***************************************************************************)
MaxOf(S) == CHOOSE x \in S : \A y \in S : x >= y

\* the emits of a turn on one topic
EmitsOn(emits, topic) == SelectSeq(emits, LAMBDA x : x.topic = topic)

\* C1: with dedup enabled, a handleEvent call for an id that is in the
\* dedup window emits nothing on any topic and does not invoke onEvent, and
\* the call that put the id into the window published it exactly once on
\* `notification`: handling the same raw event twice publishes one notification.
C1_DuplicatePublishedOnce ==
  [][(last'.op = "handleEvent" /\ opts.dedup) =>
       IF last'.id \in Range(seen)
         THEN /\ last'.emits = << >>
              /\ ~last'.called
         ELSE /\ Len(EmitsOn(last'.emits, "notification")) = 1
              /\ EmitsOn(last'.emits, "notification")[1].n.id = last'.id
              /\ last'.id \in Range(seen')]_vars

\* a duplicate was dropped by an inbox that has an onEvent callback
C1_Witness ==
  /\ opts.dedup
  /\ opts.onEvent # "none"
  /\ last.op = "handleEvent"
  /\ last.id \in Range(seen)
  /\ last.emits = << >>

\* C2: the window never holds more than SeenCap ids; the insert that makes it
\* exceed SeenCap evicts exactly the SeenEvict oldest ids in insertion order,
\* leaving more than SeenEvict and fewer than SeenCap + 1 ids; the id inserted
\* last is always in the window.
C2_WindowBoundAndEviction ==
  /\ [](Len(seen) <= SeenCap)
  /\ [][(last'.op = "handleEvent" /\ opts.dedup /\ last'.id \notin Range(seen)) =>
         /\ seen'[Len(seen')] = last'.id
         /\ IF Len(seen) = SeenCap
              THEN /\ seen' = Append(SubSeq(seen, SeenEvict + 1, Len(seen)), last'.id)
                   /\ Len(seen') > SeenEvict
                   /\ Len(seen') < SeenCap + 1
              ELSE seen' = Append(seen, last'.id)]_vars

\* the insert that exceeded the cap has just evicted the oldest ids
C2_Witness ==
  /\ last.op = "handleEvent"
  /\ last.evicted = SeenEvict
  /\ Len(seen) = SeenCap + 1 - SeenEvict
  /\ seen[Len(seen)] = last.id

\* C3: a raw event whose id was never passed to handleEvent before is never
\* dropped, whatever was inserted or evicted earlier: it is published on
\* `notification`.
C3_NoFalsePositive ==
  [][(last'.op = "handleEvent" /\ last'.id \notin handled) =>
       /\ Len(last'.emits) >= 1
       /\ last'.emits[1].topic = "notification"
       /\ last'.emits[1].n.id = last'.id]_vars

\* a never-seen id was accepted by a full window, after other ids were
\* inserted, evicted and inserted again
C3_Witness ==
  /\ opts.dedup
  /\ last.op = "handleEvent"
  /\ last.evicted = SeenEvict
  /\ last.emits # << >>
  /\ Cardinality(handled) = NumIds

\* C4: the watermark never decreases, and always equals the maximum of its
\* seed and the created_at of every event accepted so far.
C4_WatermarkMonotonic ==
  /\ [](latestTimestamp =
          MaxOf({ SeedTimestamp(opts) } \cup { EventOf(i).created_at : i \in accepted }))
  /\ [][latestTimestamp' >= latestTimestamp]_vars

\* an accepted event raised the watermark above its seed, and the watermark
\* stands there after the inbox was stopped
C4_Witness ==
  /\ latestTimestamp > SeedTimestamp(opts)
  /\ \E i \in accepted : EventOf(i).created_at = latestTimestamp
  /\ last.op = "stop"

\* the topics of a turn's emits, in order
TopicsOf(emits) == [i \in 1..Len(emits) |-> emits[i].topic]

\* C5: every accepted raw event is published once on `notification`, once on
\* the topic of its type, and on `urgent` if and only if its priority is high,
\* each time as the notification classified from it.
C5_PublishedOnEveryTopic ==
  [][(last'.op = "handleEvent" /\ ~(opts.dedup /\ last'.id \in Range(seen))) =>
       LET n == Notification(EventOf(last'.id))
       IN /\ TopicsOf(last'.emits) =
               << "notification", n.type >>
                 \o (IF n.priority = "high" THEN << "urgent" >> ELSE << >>)
          /\ \A i \in 1..Len(last'.emits) : last'.emits[i].n = n]_vars

\* C6: while the inbox is stopped and stays stopped, no connect attempt is
\* started and no reconnect timer is armed, for any relay.
C6_NoConnectAfterStop ==
  [][(~running /\ ~running') =>
       \A u \in RelayUrls : inflight'[u] <= inflight[u] /\ timers'[u] <= timers[u]]_vars

\* C7: while the inbox is running, every connect attempt that fails emits a
\* connection-error event and arms a reconnect timer for the same relay.
C7_FailedConnectRetries ==
  [][(running /\ last'.op = "connectError") =>
       /\ Len(last'.emits) >= 1
       /\ last'.emits[1].topic = "error"
       /\ last'.emits[1].n.relay = last'.url
       /\ \A i \in 2..Len(last'.emits) : last'.emits[i].topic # "error"
       /\ timers'[last'.url] = timers[last'.url] + 1]_vars

\* C8: each time a relay connection is established, every filter it
\* subscribes with carries the watermark current at that moment as `since`;
\* once a newer event has been accepted that is no longer the seed.
C8_SubscribeFromWatermark ==
  [][last'.op = "connected" =>
       /\ Len(connectedRelays') = Len(connectedRelays) + 1
       /\ LET c == connectedRelays'[Len(connectedRelays')]
          IN /\ c.url = last'.url
             /\ Len(c.since) >= 1
             /\ \A i \in 1..Len(c.since) : c.since[i] = Some(latestTimestamp)
             /\ (latestTimestamp > SeedTimestamp(opts) =>
                   \A i \in 1..Len(c.since) : c.since[i] # Some(SeedTimestamp(opts)))]_vars

\* a relay reconnected after its first attempt failed, and subscribed from a
\* watermark that an accepted event had raised above the seed
C8_Witness ==
  /\ last.op = "connected"
  /\ Len(connectedRelays) >= 2
  /\ LET c == connectedRelays[Len(connectedRelays)]
     IN /\ c.since[1] = Some(latestTimestamp)
        /\ latestTimestamp > SeedTimestamp(opts)

\* the listeners a waitFor / collect call has on the emitter
OwnListeners(kind, ref) ==
  { i \in 1..Len(listeners) : listeners[i].kind = kind /\ listeners[i].ref = ref }

\* C9: waitFor settles exactly once: it resolves with the first notification
\* published on its topic after the call, else it rejects at the timeout with
\* nothing published; once settled its listener is off the topic and its
\* timer is no longer armed.
C9_WaitForSettles ==
  \A w \in 1..Len(waits) :
    LET r == waits[w]
    IN /\ r.status = "pending" =>
            r.first = 0 /\ r.settled = 0 /\ r.timer
       /\ r.status = "resolved" =>
            r.first # 0 /\ r.result = r.first
       /\ r.status = "rejected" => r.first = 0
       /\ r.status # "pending" =>
            r.settled = 1 /\ ~r.timer /\ OwnListeners("wait", w) = { }

\* C10: collect always resolves; its result is exactly the notifications
\* published on `notification` during the window that satisfy the predicate,
\* in arrival order, and its listener is removed.
C10_CollectResult ==
  \A c \in 1..Len(collects) :
    LET r == collects[c]
    IN /\ r.status \in { "pending", "resolved" }
       /\ r.status = "pending" => r.timer /\ Cardinality(OwnListeners("collect", c)) = 1
       /\ r.status = "resolved" =>
            r.events = r.expected /\ ~r.timer /\ OwnListeners("collect", c) = { }

\* C19: verifySignature returns true for the header the dispatcher produces
\* for the same body with the same non-empty secret; it returns false when
\* the signature or the secret is absent or empty, when the lengths differ,
\* and for the header of another body or another secret.
C19_SignatureRoundTrip ==
  (call.fn = "verifySignature" /\ call.ret # None) =>
    LET body == call.args[1]
        sig == call.args[2]
        secret == call.args[3]
        r == call.ret[1]
    IN /\ (Truthy(secret) /\ sig = SignatureHeader(sign(secret, body))) => r = "true"
       /\ (~Truthy(sig) \/ ~Truthy(secret)) => r = "false"
       /\ (Truthy(sig) /\ Truthy(secret)
             /\ Len(sig[1]) # Len(Sha256Prefix) + HexLen) => r = "false"
       /\ (Truthy(secret)
             /\ \E b \in Bodies, k \in { x \in Secrets : Truthy(x) } :
                   /\ << b, k >> # << body, secret >>
                   /\ sig = SignatureHeader(sign(k, b))) => r = "false"

\* a header made for another body with the same secret was refused
C19_Witness ==
  /\ call.fn = "verifySignature"
  /\ call.ret = Some("false")
  /\ Truthy(call.args[3])
  /\ \E b \in Bodies \ { call.args[1] } :
        call.args[2] = SignatureHeader(sign(call.args[3], b))

Carried(env) ==
  IF env.payload.event = "batch" THEN env.payload.notifications
  ELSE << env.payload.notification >>

\* the notifications handed to sendRequest so far, in order
Delivered ==
  LET F[i \in 0..Len(envelopes)] ==
        IF i = 0 THEN << >> ELSE F[i - 1] \o Carried(envelopes[i])
  IN F[Len(envelopes)]

TypesOf(ns) == [i \in 1..Len(ns) |-> ns[i].type]

\* the type of the notification is on the configured allow-list
Listed(n) == hopts.events # None => \E i \in 1..Len(hopts.events[1]) : hopts.events[1][i] = n.type

Urgent(n) == n.priority = "high"

ListedAndUrgent(n) == Listed(n) /\ Urgent(n)

\* the body of every request issued in the last turn is the text of its envelope
BodiesAreEnvelopes ==
  \A i \in 1..Len(hlast.issued) :
    hlast.issued[i].body = JSONstringify(envelopes[hlast.issued[i].env].payload)

\* C11: with urgentOnly off, the notifications delivered or waiting in the
\* batch are exactly the submitted ones whose type is on the allow-list (all
\* of them when there is none), in submission order, one request each when
\* nothing is batched.
C11_TypeFilter ==
  ~hopts.urgentOnly =>
    /\ Delivered \o batch = SelectSeq(submitted, Listed)
    /\ \A e \in 1..Len(envelopes) : envelopes[e].requests >= 1
    /\ BodiesAreEnvelopes
    /\ hopts.batchMs = 0 =>
         /\ batch = << >>
         /\ \A e \in 1..Len(envelopes) : envelopes[e].payload.event = "notification"

\* allow-list [mention, dm], nothing batched: mention, dvm_request and dm
\* were submitted and two requests made, for mention then dm
C11_Witness ==
  /\ hopts.events = Some(<< "mention", "dm" >>)
  /\ ~hopts.urgentOnly
  /\ hopts.batchMs = 0
  /\ TypesOf(submitted) = << "mention", "dvm_request", "dm" >>
  /\ Len(envelopes) = 2
  /\ TypesOf(Delivered) = << "mention", "dm" >>

\* C12: with urgentOnly set, the notifications in the batch and in every
\* envelope are exactly the submitted ones of high priority that pass the
\* type filter; none of another priority is in the batch or in a request.
C12_UrgencyFilter ==
  hopts.urgentOnly =>
    /\ Delivered \o batch = SelectSeq(submitted, ListedAndUrgent)
    /\ \A i \in 1..Len(batch) : Urgent(batch[i])
    /\ \A e \in 1..Len(envelopes) :
         \A i \in 1..Len(Carried(envelopes[e])) : Urgent(Carried(envelopes[e])[i])
    /\ BodiesAreEnvelopes

\* urgentOnly and batching: a notification of medium priority was submitted
\* between two of high priority, and the batch sent holds the two
C12_Witness ==
  /\ hopts.urgentOnly
  /\ hopts.batchMs > 0
  /\ Len(submitted) = 3
  /\ ~Urgent(submitted[2])
  /\ Len(envelopes) = 1
  /\ Carried(envelopes[1]) = << submitted[1], submitted[3] >>

\* C13: a send() that leaves the batch below maxBatchSize issues no request
\* and leaves the timer armed; when the timer fires on a batch of n
\* notifications, exactly one request is issued, for one `batch` envelope
\* with count = n and the n notifications in submission order.
C13_TimeBoundedBatch ==
  [][/\ (hlast'.op = "send" /\ batch' # << >>) =>
          /\ hlast'.issued = << >>
          /\ batchTimer' = "armed"
          /\ Len(batch') < hopts.maxBatchSize
          /\ batch' = Append(batch, submitted'[Len(submitted')])
               \/ (batch' = batch /\ UNCHANGED batchTimer)
     /\ hlast'.op = "batchTimer" =>
          /\ batch # << >>
          /\ Len(hlast'.issued) = 1
          /\ hlast'.created = << Len(envelopes) + 1 >>
          /\ hlast'.issued[1].env = Len(envelopes) + 1
          /\ hlast'.issued[1].attempt = 1
          /\ hlast'.issued[1].event = "batch"
          /\ envelopes'[Len(envelopes) + 1].payload =
               [event |-> "batch", timestamp |-> NowMs,
                count |-> Len(batch), notifications |-> batch]
          /\ batch' = << >>
          /\ batchTimer' = "null"
    ]_vars

\* the timer fired on two notifications and one request was made for both
C13_Witness ==
  /\ hlast.op = "batchTimer"
  /\ Len(hlast.issued) = 1
  /\ envelopes[hlast.issued[1].env].payload.count = 2
  /\ envelopes[hlast.issued[1].env].payload.notifications = submitted
  /\ submitted[1] # submitted[2]

\* C14: the send() that fills the batch up to maxBatchSize flushes it in the
\* same turn, in one request, and cancels the pending timer, which is never
\* pending without its handle; every batch envelope carries between 1 and
\* maxBatchSize notifications and count of them.
C14_SizeBoundedBatch ==
  /\ [](\A e \in 1..Len(envelopes) :
          envelopes[e].payload.event = "batch" =>
            /\ envelopes[e].payload.count = Len(envelopes[e].payload.notifications)
            /\ envelopes[e].payload.count >= 1
            /\ envelopes[e].payload.count <= hopts.maxBatchSize)
  /\ [](batchTimer # "orphan" /\ Len(batch) < hopts.maxBatchSize)
  /\ [][(hlast'.op = "send" /\ hopts.batchMs > 0 /\ hlast'.created # << >>) =>
          /\ Len(batch) + 1 = hopts.maxBatchSize
          /\ Len(hlast'.issued) = 1
          /\ envelopes'[hlast'.created[1]].payload.notifications =
               Append(batch, submitted'[Len(submitted')])
          /\ batch' = << >>
          /\ batchTimer' = "null"
          /\ hlast'.cleared = (batchTimer = "armed")
       ]_vars

\* the third notification filled the batch: its send() cancelled the armed
\* timer and flushed the three
C14_Witness ==
  /\ hlast.op = "send"
  /\ hlast.cleared
  /\ Len(hlast.created) = 1
  /\ envelopes[hlast.created[1]].payload.count = 3
  /\ hopts.maxBatchSize = 3
  /\ batchTimer = "null"

\* the attempts of envelope e in flight or backing off
Live(e) == { i \in 1..Len(attempts) : attempts[i].env = e }

\* C15: an envelope is requested at most retries + 1 times and ends with at
\* most one signal; after a success signal nothing more is requested, and a
\* failure signal comes only after retries + 1 requests, with none left.
C15_RetryBound ==
  \A e \in 1..Len(envelopes) :
    LET env == envelopes[e]
    IN /\ env.requests <= hopts.retries + 1
       /\ env.successes + env.failures <= 1
       /\ env.successes = 1 => Live(e) = { }
       /\ env.failures = 1 => (Live(e) = { } /\ env.requests = hopts.retries + 1)
       /\ env.promise = "resolved" => env.successes = 1
       /\ env.promise = "rejected" => env.failures = 1

\* C16: close() cancels the batch timer and hands the whole batch to one
\* final envelope; when it returns the batch is empty, no timer is armed
\* and the delivery of that envelope has ended.
C16_CloseFlushes ==
  /\ [][hlast'.op = "close" =>
          /\ batchTimer' = "null"
          /\ batch' = << >>
          /\ hlast'.cleared = (batchTimer = "armed")
          /\ batch # << >> =>
               /\ hlast'.created = << Len(envelopes) + 1 >>
               /\ Carried(envelopes'[Len(envelopes) + 1]) = batch
               /\ hlast'.returned = << >>
       ]_vars
  /\ [](\A i \in 1..Len(hlast.returned) :
          LET c == closeCalls[hlast.returned[i]]
          IN /\ batch = << >>
             /\ batchTimer = "null"
             /\ c.env # 0 =>
                  /\ envelopes[c.env].promise # "pending"
                  /\ Live(c.env) = { })

\* C17: no delivery failure leaves the dispatcher: the promise of send() is
\* never rejected, and no exception of a failed delivery reaches the top of
\* the event loop, where it would end the process and ingestion with it.
C17_FailuresContained ==
  /\ "onError" \notin uncaught
  /\ \A e \in 1..Len(envelopes) :
       /\ envelopes[e].result \in { "pending", "resolved" }
       /\ envelopes[e].promise = "rejected" => envelopes[e].result = "resolved"

\* C18: a request carries the signature header exactly when a non-empty
\* secret is configured, and the header is `sha256=` followed by the hex
\* HMAC-SHA256, under the secret, of the body that request sends, which is
\* the text of its envelope, on the first attempt and on every retry.
C18_SignatureHeader ==
  \A i \in 1..Len(hlast.issued) :
    LET r == hlast.issued[i]
        configured == hopts.secret # None /\ hopts.secret # Some(<< >>)
    IN /\ (r.signature # None) = configured
       /\ configured =>
            r.signature = Some(Sha256Prefix \o hmacHex(hopts.secret[1], r.body))
       /\ r.body = JSONstringify(envelopes[r.env].payload)

\* a retry of an envelope was sent, signed
C18_Witness ==
  /\ hlast.op = "backoff"
  /\ Len(hlast.issued) = 1
  /\ hlast.issued[1].attempt = 2
  /\ hlast.issued[1].signature # None
  /\ hopts.secret = Some(Str(<< "k", 1 >>))

\* the classification table by kind, outside the work-kind ranges: type and
\* priority, the label kind depending on a tag row (p, watcher)
AboutMe(tags, me) ==
  \E i \in 1..Len(tags) : Len(tags[i]) >= 2 /\ SubSeq(tags[i], 1, 2) = << "p", me >>

KindTable(kind, tags, me) ==
  CASE kind = 4 \/ kind = 1059 -> << "dm", "high" >>
    [] kind = 7000 -> << "dvm_feedback", "low" >>
    [] kind = 9735 -> << "zap", "medium" >>
    [] kind = 1985 -> IF AboutMe(tags, me) THEN << "trust", "medium" >>
                                          ELSE << "trust_network", "low" >>
    [] kind = 950 -> << "marketplace_bid", "high" >>
    [] kind = 951 -> << "marketplace_delivery", "high" >>
    [] kind = 952 -> << "marketplace_resolution", "high" >>
    [] kind = 7 -> << "reaction", "low" >>
    [] kind = 1 \/ kind = 1111 -> << "mention", "medium" >>
    [] OTHER -> << "unknown", "low" >>

\* C21: classifyEvent returns, for every kind outside [5000, 7000), the type
\* and priority of the first-match table and no dvmKind; for every kind but
\* 1985 it returns the same for every tag list, and for every kind the same
\* whenever it is called again with the same event and watcher.
C21_ClassifyTable ==
  (call.fn = "classifyEvent" /\ call.ret # None) =>
    LET event == call.args[1]
        me == call.args[2]
        r == call.ret[1]
    IN /\ (event.kind < 5000 \/ event.kind >= 7000) =>
            /\ << r.type, r.priority >> = KindTable(event.kind, event.tags, me)
            /\ r.dvmKind = None
       /\ event.kind # 1985 =>
            \A t \in TagLists : classifyEvent([event EXCEPT !.tags = t], me) = r
       /\ classifyEvent(event, me) = r

\* a label with a row (p, watcher) among rows for others was classified trust
C21_Witness ==
  /\ call.fn = "classifyEvent"
  /\ call.ret # None
  /\ call.args[1].kind = 1985
  /\ call.args[1].tags = << << "p", "Q" >>, << "p", Pubkey >> >>
  /\ call.args[2] = Pubkey
  /\ call.ret[1].type = "trust"

\* the slots of the filter sequence, in the fixed channel order: the channel
\* of each filter that an enabled channel contributes
Slots(ch) ==
  (IF ch.mentions THEN << "mentions" >> ELSE << >>)
  \o (IF ch.dms THEN << "dm", "giftwrap" >> ELSE << >>)
  \o (IF ch.dvmRequests THEN << "requests" >> ELSE << >>)
  \o (IF ch.dvmResults THEN << "results" >> ELSE << >>)
  \o (IF ch.zaps THEN << "zaps" >> ELSE << >>)
  \o (IF ch.reactions THEN << "reactions" >> ELSE << >>)
  \o (IF ch.trust THEN << "trust" >> ELSE << >>)
  \o (IF ch.marketplace THEN << "marketplace" >> ELSE << >>)

\* the kinds a filter of a slot asks for
SlotKinds(slot, kinds) ==
  CASE slot = "mentions" -> kinds = << 1, 1111 >>
    [] slot = "dm" -> kinds = << 4 >>
    [] slot = "giftwrap" -> kinds = << 1059 >>
    [] slot = "requests" -> \A i \in 1..Len(kinds) : kinds[i] >= 5000 /\ kinds[i] < 6000
    [] slot = "results" -> \A i \in 1..Len(kinds) : kinds[i] >= 6000 /\ kinds[i] < 7000
    [] slot = "zaps" -> kinds = << 9735 >>
    [] slot = "reactions" -> kinds = << 7 >>
    [] slot = "trust" -> kinds = << 1985 >>
    [] slot = "marketplace" -> kinds = << 950, 951, 952 >>

\* the buildFilters call that returned: its arguments and its result
Built == call.fn = "buildFilters" /\ call.ret # None

\* C22: buildFilters returns one filter per slot of the enabled channels, in
\* the fixed channel order (dms contributing two, kind 4 then kind 1059),
\* each with the kinds of its channel and the watcher identity as its only
\* `#p` value: nothing when every channel is disabled, one filter of kinds
\* 1 and 1111 when only mentions is enabled.
C22_FiltersInChannelOrder ==
  Built =>
    LET pk == call.args[1]
        ch == call.args[2]
        filters == call.ret[1]
    IN /\ Len(filters) = Len(Slots(ch))
       /\ \A i \in 1..Len(filters) :
            /\ SlotKinds(Slots(ch)[i], filters[i].kinds)
            /\ filters[i].p = << pk >>

\* every channel but dms and marketplace disabled: three filters, for kind 4,
\* kind 1059 and the marketplace kinds, each targeting the watcher
C22_Witness ==
  /\ Built
  /\ Slots(call.args[2]) = << "dm", "giftwrap", "marketplace" >>
  /\ Len(call.ret[1]) = 3
  /\ call.ret[1][2].kinds = << 1059 >>
  /\ call.ret[1][3].p = << call.args[1] >>

\* the filter of a slot in the result, if the slot is there
FilterOf(slot) ==
  LET slots == Slots(call.args[2])
  IN IF \E i \in 1..Len(slots) : slots[i] = slot
       THEN Some(call.ret[1][CHOOSE i \in 1..Len(slots) : slots[i] = slot])
       ELSE None

\* C23: with an explicit kind list, the work-request filter is present
\* exactly when its channel is enabled and asks for the list as given, and
\* the work-result filter is present exactly when its channel is enabled and
\* asks for the list with 1000 added to each element, in the same order.
C23_ExplicitKindList ==
  (Built /\ call.args[2].dvmKinds # None) =>
    LET ch == call.args[2]
        list == ch.dvmKinds[1]
        req == FilterOf("requests")
        res == FilterOf("results")
    IN /\ (req # None) = ch.dvmRequests
       /\ (res # None) = ch.dvmResults
       /\ Len(call.ret[1]) = Len(Slots(ch))
       /\ req # None => req[1].kinds = list
       /\ res # None =>
            /\ Len(res[1].kinds) = Len(list)
            /\ \A i \in 1..Len(list) : res[1].kinds[i] = list[i] + 1000

\* the list [5300, 5100] with only the result channel of the two enabled:
\* no request filter, and a result filter for [6300, 6100]
C23_Witness ==
  /\ Built
  /\ call.args[2].dvmKinds = Some(<< 5300, 5100 >>)
  /\ ~call.args[2].dvmRequests
  /\ FilterOf("requests") = None
  /\ FilterOf("results") # None
  /\ FilterOf("results")[1].kinds = << 6300, 6100 >>

\* C24: with no explicit kind list, the work-request filter asks for fewer
\* than 30 kinds, all in [5000, 6000), and the work-result filter for fewer
\* than 30 kinds, all in [6000, 7000).
C24_DefaultKindsCurated ==
  (Built /\ call.args[2].dvmKinds = None) =>
    LET req == FilterOf("requests")
        res == FilterOf("results")
    IN /\ req # None =>
            /\ Len(req[1].kinds) < 30
            /\ \A i \in 1..Len(req[1].kinds) :
                 req[1].kinds[i] >= 5000 /\ req[1].kinds[i] < 6000
       /\ res # None =>
            /\ Len(res[1].kinds) < 30
            /\ \A i \in 1..Len(res[1].kinds) :
                 res[1].kinds[i] >= 6000 /\ res[1].kinds[i] < 7000

\* both work channels enabled with no list: two non-empty default filters
C24_Witness ==
  /\ Built
  /\ call.args[2].dvmKinds = None
  /\ FilterOf("requests") # None
  /\ FilterOf("results") # None
  /\ Len(FilterOf("requests")[1].kinds) > 0
  /\ Len(FilterOf("results")[1].kinds) > 0

\* C25: every filter built with a watermark that is not null, 0 included,
\* has that watermark as its `since`; built with null, no filter has one.
C25_WatermarkOnEveryFilter ==
  Built =>
    \A i \in 1..Len(call.ret[1]) : call.ret[1][i].since = call.args[3]

\* the topics a notification is published on, in order
TopicsFor(n) ==
  << "notification", n.type >> \o (IF n.priority = "high" THEN << "urgent" >> ELSE << >>)

\* C26: a handleEvent call whose onEvent callback throws returns normally,
\* after the notification was published on `notification`, on its type and,
\* when high, on `urgent`; the id is in the dedup window when dedup is on,
\* the watermark is the greater of its old value and created_at, and the
\* event counts as accepted.
C26_OnEventSwallowed ==
  [][(last'.op = "handleEvent" /\ last'.called /\ opts.onEvent = "throws") =>
       /\ ~last'.threw
       /\ \E i \in 1..NumIds :
            /\ EventOf(i).id = last'.id
            /\ TopicsOf(last'.emits) = TopicsFor(Notification(EventOf(i)))
            /\ \A k \in 1..Len(last'.emits) : last'.emits[k].n.id = last'.id
            /\ latestTimestamp' >= EventOf(i).created_at
            /\ latestTimestamp' >= latestTimestamp
            /\ latestTimestamp' \in { latestTimestamp, EventOf(i).created_at }
       /\ opts.dedup => last'.id \in Range(seen')
       /\ ~opts.dedup => seen' = seen
       /\ last'.id \in accepted'
  ]_vars

\* a direct message reached a subscriber of `notification` and the three
\* topics, the callback threw, and handleEvent returned
C26_Witness ==
  /\ last.op = "handleEvent"
  /\ opts.onEvent = "throws"
  /\ last.called
  /\ ~last.threw
  /\ Len(last.emits) = 3
  /\ \E i \in 1..Len(listeners) : listeners[i].topic = "notification"
  /\ Cardinality(accepted) >= 2

\* a turn in which user code ran and ingestion went on: an accepted raw
\* event is published on all its topics, and a failed connect whose `error`
\* event has a subscriber schedules the retry of its relay while running
IngestionGoesOn ==
  /\ (last'.op = "handleEvent" /\ last'.id \in accepted' \ accepted) =>
       \E i \in 1..NumIds :
         /\ EventOf(i).id = last'.id
         /\ TopicsOf(last'.emits) = TopicsFor(Notification(EventOf(i)))
  /\ (last'.op = "connectError" /\ running
        /\ \E i \in 1..Len(listeners) : listeners[i].topic = "error") =>
       timers'[last'.url] = timers[last'.url] + 1

\* C27: whatever the onError callback and the subscribed handlers do, a
\* failed connect schedules the retry of its relay while the inbox is
\* running, and an accepted event is published on every one of its topics.
C27_UserCodeCannotAbort == [][IngestionGoesOn]_vars

\* C28: no exception of onSuccess or onError reaches the top of the event
\* loop, and once the outcome of an envelope was signalled to the callback
\* the promise of its sendRequest is settled and the send() or close() that
\* awaits it has resolved.
C28_CallbacksContained ==
  /\ uncaught = { }
  /\ \A e \in 1..Len(envelopes) :
       envelopes[e].successes + envelopes[e].failures >= 1 =>
         /\ envelopes[e].promise # "pending"
         /\ envelopes[e].result = "resolved"
  /\ \A c \in 1..Len(closeCalls) :
       (closeCalls[c].env # 0
          /\ envelopes[closeCalls[c].env].successes
               + envelopes[closeCalls[c].env].failures >= 1) =>
         closeCalls[c].status = "returned"

\* C29: a handleEvent call for an id that is in the dedup window, dedup
\* being on, changes neither the watermark, nor the window, nor the
\* connections, nor the subscribers, nor what any waitFor or collect call
\* has received, and publishes nothing, whatever created_at the event carries.
C29_DuplicateHasNoEffect ==
  [][(last'.op = "handleEvent" /\ opts.dedup /\ last'.id \in Range(seen)) =>
       /\ latestTimestamp' = latestTimestamp
       /\ seen' = seen
       /\ connectedRelays' = connectedRelays
       /\ listeners' = listeners
       /\ waits' = waits
       /\ collects' = collects
       /\ accepted' = accepted
       /\ last'.emits = << >>
       /\ ~last'.called
  ]_vars

\* a copy of an accepted event, later than the watermark, was dropped while
\* a subscriber and a collect call were listening
C29_Witness ==
  /\ last.op = "handleEvent"
  /\ opts.dedup
  /\ last.id \in Range(seen)
  /\ last.emits = << >>
  /\ last.at > latestTimestamp
  /\ listeners # << >>
  /\ \E c \in 1..Len(collects) :
        collects[c].status = "pending" /\ collects[c].events # << >>

\* the position of id in the sequence s (0 if absent)
PosIn(s, id) == IF id \in Range(s) THEN Min({ i \in 1..Len(s) : s[i] = id }) ELSE 0

\* C30: the publications of one handleEvent call are all of the event it
\* accepted, so those of an earlier accepted event are complete before; a
\* collect call receives the event, if at all, after everything it received
\* before, and a waitFor call that has its notification keeps it.  With
\* dedup on, the dedup window lists the accepted ids in acceptance order and
\* every collect call holds what it received in that order.
C30_AcceptanceOrder ==
  /\ [][(last'.op = "handleEvent" /\ last'.emits # << >>) =>
          /\ \A k \in 1..Len(last'.emits) : last'.emits[k].n.id = last'.id
          /\ \A c \in 1..Len(collects) :
               collects'[c].events \in { collects[c].events,
                                         Append(collects[c].events, last'.id) }
          /\ \A w \in 1..Len(waits) :
               IF waits[w].status = "pending"
                 THEN waits'[w].status = "pending" \/ waits'[w].result = last'.id
                 ELSE waits'[w] = waits[w]
          /\ opts.dedup => seen' = Append(seen, last'.id)
       ]_vars
  /\ [](opts.dedup =>
          \A c \in 1..Len(collects) :
            \A i, j \in 1..Len(collects[c].events) :
              i < j => /\ PosIn(seen, collects[c].events[i]) > 0
                       /\ PosIn(seen, collects[c].events[i])
                            < PosIn(seen, collects[c].events[j]))

\* a collect call received two events, the second accepted in the last turn
C30_Witness ==
  /\ last.op = "handleEvent"
  /\ opts.dedup
  /\ Len(seen) = 2
  /\ \E c \in 1..Len(collects) : collects[c].events = seen
  /\ \E i \in 1..Len(listeners) : listeners[i].kind = "user"

\* C31: while the inbox is not running, that is before the first start()
\* and after a stop() that no start() followed, the set of active
\* connections is empty, whatever connect attempt completes, and no
\* handleEvent call publishes anything.
C31_InFlightOutcomeDiscarded ==
  /\ [](~running => connectedRelays = << >>)
  /\ [][(last'.op = "handleEvent" /\ ~running) => last'.emits = << >>]_vars

\* C32: when a subscribed relay loses its connection while the inbox is
\* running, the relay is removed from the active connections and a
\* reconnect timer is armed for it.
C32_LostConnectionReconnects ==
  [][(last'.op = "closed" /\ running) =>
       /\ \A i \in 1..Len(connectedRelays') : connectedRelays'[i].url # last'.url
       /\ timers'[last'.url] = timers[last'.url] + 1]_vars

\* the `started` events among a turn's emits
StartedIn(emits) == { i \in 1..Len(emits) : emits[i].topic = "started" }

\* C33: a connect attempt that fails or times out changes nothing but its
\* own relay's retry: the active connections, the attempts and timers of
\* the other relays, the running flag, the dedup window and the watermark
\* are as before.  A start() call awaits only attempts in flight, and in the
\* turn its last attempt settles, failed or not, with the catch block
\* completed or not, it emits `started` once with the number of active
\* connections and of configured relays.
C33_ConnectFailureContained ==
  /\ [](\A k \in 1..Len(starting) :
          starting[k] # { } /\ \A u \in starting[k] : inflight[u] > 0)
  /\ [][/\ last'.op = "connectError" =>
             /\ connectedRelays' = connectedRelays
             /\ \A u \in RelayUrls \ { last'.url } :
                  inflight'[u] = inflight[u] /\ timers'[u] = timers[u]
             /\ running' = running
             /\ seen' = seen
             /\ latestTimestamp' = latestTimestamp
        /\ Len(starting') < Len(starting) =>
             /\ Len(starting') = Len(starting) - 1
             /\ Cardinality(StartedIn(last'.emits)) = 1
             /\ \A i \in StartedIn(last'.emits) :
                  /\ last'.emits[i].n.connected = Len(connectedRelays')
                  /\ last'.emits[i].n.total = Cardinality(RelayUrls)
        /\ Len(starting') >= Len(starting) => StartedIn(last'.emits) = { }]_vars

\* the connect to one relay failed with nobody listening on `error`, the
\* other relay is connected and has delivered an event, and start()
\* completed in that turn with `started` reporting 1 of 2
C33_Witness ==
  /\ last.op = "connectError"
  /\ last.threw
  /\ seen # << >>
  /\ starting = << >>
  /\ Len(connectedRelays) = 1
  /\ connectedRelays[1].url # last.url
  /\ \E i \in StartedIn(last.emits) :
       last.emits[i].n = [connected |-> 1, total |-> 2]

\* the notification passes the type filter and the urgency filter
PassesFilters(n) == Listed(n) /\ (hopts.urgentOnly => Urgent(n))

\* C34: with batching on, the notifications of the envelopes, taken in the
\* order the envelopes were made, followed by those still waiting in the
\* batch, are the submitted notifications that pass the filters, each as
\* often as it was submitted and in submission order; every envelope is a
\* `batch` envelope; a retry makes no envelope, and a close() with no send()
\* in its turn leaves nothing waiting.
C34_BatchExactlyOnce ==
  /\ [](hopts.batchMs > 0 =>
          /\ Delivered \o batch = SelectSeq(submitted, PassesFilters)
          /\ \A e \in 1..Len(envelopes) : envelopes[e].payload.event = "batch")
  /\ [][hopts.batchMs > 0 =>
          /\ hlast'.op = "backoff" =>
               /\ Len(envelopes') = Len(envelopes)
               /\ Delivered' = Delivered
               /\ batch' = batch
          /\ hlast'.op = "close" =>
               Delivered' = SelectSeq(submitted', PassesFilters)]_vars

\* two different notifications were flushed by the timer in one envelope,
\* in submission order, the envelope was requested again after a backoff,
\* and close() was called
C34_Witness ==
  /\ hopts.batchMs > 0
  /\ Len(submitted) = 2
  /\ submitted[1] # submitted[2]
  /\ Len(envelopes) = 1
  /\ Carried(envelopes[1]) = submitted
  /\ envelopes[1].requests = 2
  /\ closeCalls # << >>

\* C35: the timer armed after the failed attempt a of an envelope (a = 1
\* for the first request) has the delay 2^a seconds, twice that of the
\* timer armed after attempt a - 1; a request after the first is issued
\* only by such a timer firing, as attempt a + 1 of the same envelope.
C35_BackoffDoubles ==
  /\ [](\A i \in 1..Len(attempts) :
          attempts[i].phase = "backoff" =>
            /\ attempts[i].attempt >= 2
            /\ attempts[i].delay = 1000 * 2 ^ (attempts[i].attempt - 1)
            /\ attempts[i].attempt >= 3 =>
                 attempts[i].delay = 2 * (1000 * 2 ^ (attempts[i].attempt - 2)))
  /\ [][\A j \in 1..Len(hlast'.issued) :
          hlast'.issued[j].attempt > 1 =>
            /\ hlast'.op = "backoff"
            /\ Len(hlast'.issued) = 1
            /\ \E i \in 1..Len(attempts) :
                 /\ attempts[i].phase = "backoff"
                 /\ attempts[i].env = hlast'.issued[j].env
                 /\ attempts[i].attempt = hlast'.issued[j].attempt
                 /\ Len(attempts') = Len(attempts)]_vars

\* with three retries the fourth request of an envelope went out: its timer
\* had a delay of 8 s
C35_Witness ==
  /\ hlast.op = "backoff"
  /\ Len(hlast.issued) = 1
  /\ hlast.issued[1].attempt = 4
  /\ hopts.retries = 3

\* C36: the active connections hold at most one connection per configured
\* relay URL, so that their number is at most the number of relays.
C36_OneConnectionPerRelay ==
  /\ \A i, j \in 1..Len(connectedRelays) :
       connectedRelays[i].url = connectedRelays[j].url => i = j
  /\ Len(connectedRelays) <= Cardinality(RelayUrls)

\* C37: with batching on, between the turns of the dispatcher the batch is
\* non-empty exactly when the batch timer is armed, and it stays below
\* maxBatchSize; a batch timer that fired found a non-empty batch and made a
\* request for it.
C37_BatchIffTimer ==
  hopts.batchMs > 0 =>
    /\ batch # << >> <=> batchTimer = "armed"
    /\ batch = << >> => batchTimer = "null"
    /\ Len(batch) < hopts.maxBatchSize
    /\ hlast.op = "batchTimer" => Len(hlast.issued) = 1 /\ Len(hlast.created) = 1

\* a send() during the wait of close() has left one notification in the
\* batch, with the timer armed again
C37_Witness ==
  /\ hopts.batchMs > 0
  /\ hlast.op = "send"
  /\ \E c \in 1..Len(closeCalls) : closeCalls[c].status = "awaiting"
  /\ Len(batch) = 1
  /\ batchTimer = "armed"

\* C38: a turn that handles the outcome of one HTTP attempt (response,
\* error or timeout) arms at most one backoff timer and gives at most one
\* terminal signal; an envelope never has two attempts in flight or backing
\* off, and onSuccess / onError are called at most once for it.
C38_OneContinuation ==
  /\ [](\A e \in 1..Len(envelopes) :
          /\ Cardinality(Live(e)) <= 1
          /\ envelopes[e].successes + envelopes[e].failures <= 1)
  /\ [][hlast'.op \in { "response", "error", "timeout" } =>
          /\ Len(attempts') <= Len(attempts)
          /\ \A e \in 1..Len(envelopes) :
               envelopes'[e].successes + envelopes'[e].failures
                 <= envelopes[e].successes + envelopes[e].failures + 1]_vars

\* C39: while the inbox is running, the catch block of a failed connect
\* attempt runs to its end, arming the reconnect timer and returning null,
\* with or without a subscriber on `error` and with or without onError.
C39_RetryWhoeverListens ==
  [][(running /\ last'.op = "connectError") =>
       /\ ~last'.threw
       /\ timers'[last'.url] = timers[last'.url] + 1]_vars

\* the notification types of the channel a slot belongs to
ChannelTypes(slot) ==
  CASE slot = "mentions" -> { "mention" }
    [] slot \in { "dm", "giftwrap" } -> { "dm" }
    [] slot = "requests" -> { "dvm_request" }
    [] slot = "results" -> { "dvm_result" }
    [] slot = "zaps" -> { "zap" }
    [] slot = "reactions" -> { "reaction" }
    [] slot = "trust" -> { "trust", "trust_network" }
    [] slot = "marketplace" ->
         { "marketplace_bid", "marketplace_delivery", "marketplace_resolution" }

\* C40: with no explicit kind list, an event of any kind a built filter
\* asks for, whatever its tags, is classified into a type of that filter's
\* channel and never as `unknown`; and the default work-result kinds are
\* the default work-request kinds with 1000 added, in the same order.
C40_FiltersMatchClassifier ==
  (Built /\ call.args[2].dvmKinds = None) =>
    LET pk == call.args[1]
        slots == Slots(call.args[2])
        filters == call.ret[1]
        req == FilterOf("requests")
        res == FilterOf("results")
    IN /\ Len(filters) = Len(slots)
       /\ \A i \in 1..Len(filters) :
            \A j \in 1..Len(filters[i].kinds), tags \in TagLists :
              LET c == classifyEvent([kind |-> filters[i].kinds[j], tags |-> tags], pk)
              IN c.type \in ChannelTypes(slots[i]) /\ c.type # "unknown"
       /\ (req # None /\ res # None) =>
            /\ Len(res[1].kinds) = Len(req[1].kinds)
            /\ \A i \in 1..Len(req[1].kinds) : res[1].kinds[i] = req[1].kinds[i] + 1000

\* every channel enabled with no kind list: nine filters, a comment of kind
\* 1111 is a mention, and a label that does not tag the watcher is of the
\* trust channel's network type
C40_Witness ==
  /\ Built
  /\ call.args[2] = DefaultChannels
  /\ Len(call.ret[1]) = 9
  /\ call.ret[1][1].kinds[2] = 1111
  /\ classifyEvent([kind |-> 1111, tags |-> << >>], call.args[1]).type = "mention"
  /\ classifyEvent([kind |-> call.ret[1][8].kinds[1], tags |-> << >>],
                   call.args[1]).type = "trust_network"
  /\ FilterOf("results")[1].kinds[7] = 6050

====
